---------------------------- MODULE Spec2Model ----------------------------
(***************************************************************************)
(* compareui-server: the generate -> validate -> repair loop.              *)
(*                                                                         *)
(* Strings are sequences of tokens (a token is an atomic piece of text),   *)
(* so that concatenation is \o and "contains" is a contiguous subsequence. *)
(* JSON values are records of one shape; an object keeps its members in    *)
(* document order, nested paths flattened ("styles.color").                *)
(***************************************************************************)
EXTENDS Integers, Sequences, FiniteSets, TLC

(***************************************************************************)
(* Bounds of the model (not program constants).                            *)
(***************************************************************************)
\* How many prose tokens the backend may put before a JSON body.
MaxProse == 1

(***************************************************************************)
(* Program constants.                                                      *)
(***************************************************************************)
\* part_000:30  const MAX_RETRIES = 3 (generateWithValidation)
MAX_RETRIES == 3
\* aiService.ts:82  const MAX_RETRIES = 5 (the per-kind generators)
LEGACY_MAX_RETRIES == 5
\* codeController.ts:23  const MAX_CODE_RETRIES = 5
MAX_CODE_RETRIES == 5

(***************************************************************************)
(* JSON values and text tokens.                                            *)
(***************************************************************************)
JVal(ty, s, n, elems, members) ==
  [ty |-> ty, s |-> s, n |-> n, elems |-> elems, members |-> members]

Str(s)   == JVal("string", s, 0, <<>>, <<>>)
Num(n)   == JVal("number", "", n, <<>>, <<>>)
Bool(b)  == JVal("boolean", IF b THEN "true" ELSE "false", 0, <<>>, <<>>)
Arr(es)  == JVal("array", "", 0, es, <<>>)
Null     == JVal("null", "", 0, <<>>, <<>>)
Undefined == JVal("undefined", "", 0, <<>>, <<>>)
Obj(ms)  == JVal("object", "", 0, <<>>, ms)
KV(k, v) == [k |-> k, v |-> v]

\* A token of text: a literal piece, one "key": value member of a JSON
\* object, or a JSON scalar literal.
Lit(s)       == [t |-> "lit", s |-> s, k |-> "", v |-> Undefined]
MemberTok(m) == [t |-> "member", s |-> "", k |-> m.k, v |-> m.v]
ScalarTok(v) == [t |-> "json", s |-> "", k |-> "", v |-> v]

LBrace == Lit("{")
RBrace == Lit("}")
Space  == Lit(" ")
FenceJson == Lit("<fence>json")
Fence  == Lit("<fence>")

RECURSIVE MapSeq(_, _)
MapSeq(Op(_), s) ==
  IF s = <<>> THEN <<>> ELSE <<Op(Head(s))>> \o MapSeq(Op, Tail(s))

RECURSIVE FilterSeq(_, _)
FilterSeq(Keep(_), s) ==
  IF s = <<>> THEN <<>>
  ELSE (IF Keep(Head(s)) THEN <<Head(s)>> ELSE <<>>) \o FilterSeq(Keep, Tail(s))

\* Array.prototype.join: the pieces with the separator between them.
RECURSIVE Join(_, _)
Join(ss, sep) ==
  IF ss = <<>> THEN <<>>
  ELSE IF Len(ss) = 1 THEN Head(ss)
  ELSE Head(ss) \o sep \o Join(Tail(ss), sep)

\* String.prototype.includes on token sequences.
Contains(text, part) ==
  \E i \in 0..(Len(text) - Len(part)) :
    \A j \in 1..Len(part) : text[i + j] = part[j]

\* JSON.stringify
Stringify(v) ==
  IF v.ty = "object"
  THEN <<LBrace>> \o MapSeq(MemberTok, v.members) \o <<RBrace>>
  ELSE <<ScalarTok(v)>>

\* typeof
TypeOf(v) ==
  CASE v.ty \in {"object", "array", "null"} -> "object"
    [] OTHER -> v.ty

(***************************************************************************)
(* Response Extractor: extractJSON (part_001:20-41, aiService.ts:114-137). *)
(***************************************************************************)
RECURSIVE TrimLeft(_)
TrimLeft(text) ==
  IF text # <<>> /\ Head(text) = Space THEN TrimLeft(Tail(text)) ELSE text

RECURSIVE TrimRight(_)
TrimRight(text) ==
  IF text # <<>> /\ text[Len(text)] = Space
  THEN TrimRight(SubSeq(text, 1, Len(text) - 1))
  ELSE text

\* String.prototype.trim
Trim(text) == TrimRight(TrimLeft(text))

\* indexOf / lastIndexOf, 1-based; 0 when the token does not occur (-1 in JS).
IndexOf(text, tok) ==
  IF \E i \in 1..Len(text) : text[i] = tok
  THEN CHOOSE i \in 1..Len(text) :
         text[i] = tok /\ \A j \in 1..(i - 1) : text[j] # tok
  ELSE 0

LastIndexOf(text, tok) ==
  IF \E i \in 1..Len(text) : text[i] = tok
  THEN CHOOSE i \in 1..Len(text) :
         text[i] = tok /\ \A j \in (i + 1)..Len(text) : text[j] # tok
  ELSE 0

\* .replace(/^```json\s*/i, "")
StripLeadingFenceJson(text) ==
  IF text # <<>> /\ Head(text) = FenceJson THEN TrimLeft(Tail(text)) ELSE text

\* .replace(/^```\s*/, "")
StripLeadingFence(text) ==
  IF text # <<>> /\ Head(text) = Fence THEN TrimLeft(Tail(text)) ELSE text

\* .replace(/```\s*$/, "")
StripTrailingFence(text) ==
  LET t == TrimRight(text)
  IN  IF t # <<>> /\ t[Len(t)] = Fence THEN SubSeq(t, 1, Len(t) - 1) ELSE text

\* The members of a parsed object: one per key, at the place of the key's
\* first occurrence, holding the value of its last occurrence.
RECURSIVE ObjectMembers(_, _)
ObjectMembers(toks, seen) ==
  IF toks = <<>> THEN <<>>
  ELSE LET h == Head(toks)
           later == { i \in 1..Len(toks) : toks[i].k = h.k }
           last == toks[CHOOSE i \in later : \A j \in later : j <= i]
       IN  IF h.k \in seen
           THEN ObjectMembers(Tail(toks), seen)
           ELSE <<KV(h.k, last.v)>> \o ObjectMembers(Tail(toks), seen \cup {h.k})

\* JSON.parse: [ok, value]; ok = FALSE stands for the SyntaxError it throws.
JSONParse(text) ==
  LET t == Trim(text)
  IN  IF /\ Len(t) >= 2
         /\ t[1] = LBrace
         /\ t[Len(t)] = RBrace
         /\ \A i \in 2..(Len(t) - 1) : t[i].t = "member"
      THEN [ok |-> TRUE, value |-> Obj(ObjectMembers(SubSeq(t, 2, Len(t) - 1), {}))]
      ELSE IF Len(t) = 1 /\ t[1].t = "json"
      THEN [ok |-> TRUE, value |-> t[1].v]
      ELSE [ok |-> FALSE, value |-> Undefined]

ParseErrorMessage == <<Lit("Failed to parse JSON response")>>

\* Faulty variant: only the code fences are stripped, the braces not looked
\* for.
CleanedTextFencesOnly(text) ==
  StripTrailingFence(StripLeadingFence(StripLeadingFenceJson(Trim(text))))

\* The text handed to JSON.parse.
CleanedText(text) ==
  LET cleaned == Trim(text)
      firstOpen == IndexOf(cleaned, LBrace)
      lastClose == LastIndexOf(cleaned, RBrace)
  IN  IF firstOpen # 0 /\ lastClose # 0 /\ lastClose > firstOpen
      THEN SubSeq(cleaned, firstOpen, lastClose)
      ELSE StripTrailingFence(StripLeadingFence(StripLeadingFenceJson(cleaned)))

\* Faulty variant: a parse failure yields an empty object instead of throwing.
ExtractJSONLenient(text) ==
  LET parsed == JSONParse(CleanedText(text))
  IN  IF parsed.ok
      THEN [ok |-> TRUE, value |-> parsed.value, message |-> <<>>]
      ELSE [ok |-> TRUE, value |-> Obj(<<>>), message |-> <<>>]

\* extractJSON: [ok, value, message]; ok = FALSE stands for the thrown
\* Error("Failed to parse JSON response").
ExtractJSON(text) ==
  LET parsed == JSONParse(CleanedText(text))
  IN  IF parsed.ok
      THEN [ok |-> TRUE, value |-> parsed.value, message |-> <<>>]
      ELSE [ok |-> FALSE, value |-> Undefined, message |-> ParseErrorMessage]

(***************************************************************************)
(* Schema Registry and Validator Set.                                      *)
(*                                                                         *)
(* A schema is the sequence of its fields in declaration order; a field    *)
(* of a nested object carries the nested object's path as its parent.      *)
(***************************************************************************)
Field(name, parent, required, ty) ==
  [name |-> name, parent |-> parent, required |-> required, ty |-> ty,
   enum |-> {}, hasLo |-> FALSE, lo |-> 0, loExcl |-> FALSE,
   hasHi |-> FALSE, hi |-> 0, minLen |-> 0, elem |-> ""]

FStr(name, parent, required)   == Field(name, parent, required, "string")
FBool(name, parent, required)  == Field(name, parent, required, "boolean")
FColor(name, parent, required) == Field(name, parent, required, "color")
FEnum(name, parent, required, values) ==
  [Field(name, parent, required, "enum") EXCEPT !.enum = values]
FNum(name, parent, required) == Field(name, parent, required, "number")
FMin(name, parent, required, lo) ==
  [Field(name, parent, required, "number") EXCEPT !.hasLo = TRUE, !.lo = lo]
FRange(name, parent, required, lo, hi) ==
  [Field(name, parent, required, "number")
     EXCEPT !.hasLo = TRUE, !.lo = lo, !.hasHi = TRUE, !.hi = hi]
FPositive(name, parent, required) ==
  [Field(name, parent, required, "number")
     EXCEPT !.hasLo = TRUE, !.lo = 0, !.loExcl = TRUE]
\* An array of at least minLen elements; elem is the schema of an element:
\* "string", "option" (a string or an option object) or "tab" (a tab item).
FArr(name, parent, required, minLen, elem) ==
  [Field(name, parent, required, "array")
     EXCEPT !.minLen = minLen, !.elem = elem]

Sizes == {"small", "medium", "large"}

\* SelectOptionSchema (part_003:4-7) and TabItemSchema
\* (accordionConfigValidator.ts:96-100): the keys of an element object, all
\* of them z.string().
SelectOptionSchema == <<"value", "label">>
TabItemSchema == <<"label", "value", "content">>

SelectConfigSchema ==
  << FArr("options", "", TRUE, 1, "option"),
     FStr("value", "", TRUE),
     FStr("placeholder", "", FALSE),
     FStr("label", "", FALSE),
     FEnum("size", "", FALSE, Sizes),
     FBool("disabled", "", FALSE),
     FColor("styles.color", "styles", FALSE),
     FColor("styles.backgroundColor", "styles", FALSE),
     FRange("styles.borderRadius", "styles", FALSE, 0, 100),
     FColor("styles.borderColor", "styles", FALSE) >>

RadioConfigSchema ==
  << FArr("options", "", TRUE, 1, "string"),
     FStr("selectedValue", "", TRUE),
     FEnum("size", "", FALSE, Sizes),
     FBool("disabled", "", FALSE),
     FStr("color", "", FALSE),
     FColor("styles.color", "styles", FALSE),
     FColor("styles.backgroundColor", "styles", FALSE),
     FColor("styles.borderColor", "styles", FALSE) >>

CardConfigSchema ==
  << FStr("title", "", TRUE),
     FStr("description", "", TRUE),
     FBool("image", "", FALSE),
     FColor("styles.backgroundColor", "styles", FALSE),
     FColor("styles.borderColor", "styles", FALSE),
     FRange("styles.borderWidth", "styles", FALSE, 0, 10),
     FRange("styles.borderRadius", "styles", FALSE, 0, 50),
     FColor("styles.titleColor", "styles", FALSE),
     FColor("styles.fontColor", "styles", FALSE),
     FPositive("styles.padding.px", "styles.padding", TRUE),
     FPositive("styles.padding.py", "styles.padding", TRUE),
     FEnum("styles.shadow", "styles", FALSE, {"none", "sm", "md", "lg"}) >>

ProgressConfigSchema ==
  << FMin("value", "", FALSE, 0),
     FMin("max", "", FALSE, 1),
     FEnum("size", "", FALSE, Sizes),
     FStr("label", "", FALSE),
     FColor("styles.indicatorColor", "styles", FALSE),
     FColor("styles.trackColor", "styles", FALSE),
     FRange("styles.height", "styles", FALSE, 1, 100),
     FRange("styles.borderRadius", "styles", FALSE, 0, 100) >>

AccordionConfigSchema ==
  << FStr("title", "", FALSE),
     FStr("content", "", FALSE),
     FEnum("size", "", FALSE, Sizes),
     FRange("styles.borderRadius", "styles", FALSE, 0, 100),
     FColor("styles.backgroundColor", "styles", FALSE),
     FColor("styles.borderColor", "styles", FALSE),
     FColor("styles.titleColor", "styles", FALSE),
     FColor("styles.answerColor", "styles", FALSE) >>

TabsConfigSchema ==
  << FArr("tabs", "", TRUE, 1, "tab"),
     FStr("defaultValue", "", TRUE),
     FEnum("orientation", "", FALSE, {"horizontal", "vertical"}),
     FEnum("variant", "", FALSE,
           {"standard", "enclosed", "outline", "soft", "solid"}),
     FColor("styles.activeColor", "styles", FALSE),
     FColor("styles.inactiveColor", "styles", FALSE),
     FColor("styles.backgroundColor", "styles", FALSE),
     FRange("styles.borderRadius", "styles", FALSE, 0, 50),
     FNum("styles.padding", "styles", FALSE) >>

IconButtonConfigSchema ==
  << FStr("label", "", FALSE),
     FBool("showLabel", "", FALSE),
     FEnum("variant", "", TRUE, {"contained", "outlined"}),
     FEnum("size", "", TRUE, Sizes),
     FRange("styles.borderRadius", "styles", FALSE, 0, 100),
     FColor("styles.backgroundColor", "styles", FALSE),
     FColor("styles.fontColor", "styles", FALSE),
     FColor("styles.borderColor", "styles", FALSE),
     FEnum("styles.borderStyle", "styles", FALSE, {"solid", "dashed", "dotted"}),
     FRange("styles.borderWidth", "styles", FALSE, 0, 20),
     FPositive("styles.padding.px", "styles.padding", TRUE),
     FPositive("styles.padding.py", "styles.padding", TRUE) >>

InputConfigSchema ==
  << FStr("label", "", TRUE),
     FStr("placeholder", "", TRUE),
     FEnum("variant", "", TRUE, {"outlined", "standard"}),
     FEnum("size", "", TRUE, Sizes),
     FRange("styles.borderRadius", "styles", FALSE, 0, 100),
     FColor("styles.borderColor", "styles", FALSE),
     FColor("styles.focusColor", "styles", FALSE),
     FColor("styles.backgroundColor", "styles", FALSE),
     FColor("styles.fontColor", "styles", FALSE),
     FPositive("styles.padding.px", "styles.padding", TRUE),
     FPositive("styles.padding.py", "styles.padding", TRUE) >>

ModalConfigSchema ==
  << FStr("title", "", TRUE),
     FStr("content", "", TRUE),
     FRange("styles.borderRadius", "styles", FALSE, 0, 50),
     FColor("styles.backgroundColor", "styles", FALSE),
     FColor("styles.titleColor", "styles", FALSE),
     FColor("styles.textColor", "styles", FALSE),
     FStr("styles.overlayColor", "styles", FALSE) >>

\* validators/buttonConfigValidator.ts is not among the sources: the button
\* schema is the part the prompts state of it (a hex background color).
ButtonConfigSchema ==
  << FColor("styles.backgroundColor", "styles", FALSE) >>

ConfigKinds ==
  {"button", "icon-button", "accordion", "input", "select", "radio", "card",
   "modal", "tabs", "progress"}

\* schemaFor(kind): the schema of the validator the router selects.
SchemaFor(kind) ==
  CASE kind = "button"      -> ButtonConfigSchema
    [] kind = "icon-button" -> IconButtonConfigSchema
    [] kind = "accordion"   -> AccordionConfigSchema
    [] kind = "input"       -> InputConfigSchema
    [] kind = "select"      -> SelectConfigSchema
    [] kind = "radio"       -> RadioConfigSchema
    [] kind = "card"        -> CardConfigSchema
    [] kind = "modal"       -> ModalConfigSchema
    [] kind = "tabs"        -> TabsConfigSchema
    [] kind = "progress"    -> ProgressConfigSchema
    [] OTHER                -> <<>>

\* The characters of the strings the model gives color fields; any other
\* string is taken as one piece that is no hex digit.
Chars(s) ==
  CASE s = "#1A2B3C"   -> <<"#", "1", "A", "2", "B", "3", "C">>
    [] s = "#00ff00"   -> <<"#", "0", "0", "f", "f", "0", "0">>
    [] s = "#ZZZZZZ"   -> <<"#", "Z", "Z", "Z", "Z", "Z", "Z">>
    [] s = "#fff"      -> <<"#", "f", "f", "f">>
    [] s = "red"       -> <<"r", "e", "d">>
    [] s = "#1A2B3C4D" -> <<"#", "1", "A", "2", "B", "3", "C", "4", "D">>
    [] OTHER           -> <<s>>

HexDigits ==
  {"0", "1", "2", "3", "4", "5", "6", "7", "8", "9",
   "A", "B", "C", "D", "E", "F", "a", "b", "c", "d", "e", "f"}

\* /^#[0-9A-Fa-f]{6}$/
IsHexColor(s) ==
  LET c == Chars(s)
  IN  /\ Len(c) = 7
      /\ c[1] = "#"
      /\ \A n \in 2..7 : c[n] \in HexDigits

\* The message zod gives an issue, by the issue's code.
ZodMessage(code) == Lit(code)

HasKey(value, key) == \E i \in 1..Len(value.members) : value.members[i].k = key

Get(value, key) ==
  value.members[CHOOSE i \in 1..Len(value.members) : value.members[i].k = key].v

\* A nested object is present when one of the schema's fields under it is.
ParentPresent(schema, value, parent) ==
  \/ parent = ""
  \/ \E i \in 1..Len(schema) :
       schema[i].parent = parent /\ HasKey(value, schema[i].name)

\* A field the value does not hold: an issue when the field is not
\* .optional() and the object it belongs to is there.
MissingField(schema, f, value) ==
  IF f.required /\ ParentPresent(schema, value, f.parent)
  THEN "invalid_type" ELSE ""

\* The issue code of one field against a value, "" when the field passes.
FieldIssue(schema, f, value) ==
  IF ~HasKey(value, f.name)
  THEN MissingField(schema, f, value)
  ELSE LET v == Get(value, f.name)
       IN CASE f.ty = "string"  -> IF v.ty = "string" THEN "" ELSE "invalid_type"
            [] f.ty = "boolean" -> IF v.ty = "boolean" THEN "" ELSE "invalid_type"
            [] f.ty = "color"   ->
                 IF v.ty # "string" THEN "invalid_type"
                 ELSE IF IsHexColor(v.s) THEN "" ELSE "invalid_string"
            [] f.ty = "enum"    ->
                 IF v.ty # "string" THEN "invalid_type"
                 ELSE IF v.s \in f.enum THEN "" ELSE "invalid_enum_value"
            [] f.ty = "number"  ->
                 IF v.ty # "number" THEN "invalid_type"
                 ELSE IF f.hasLo /\ (v.n < f.lo \/ (f.loExcl /\ v.n = f.lo))
                      THEN "too_small"
                 ELSE IF f.hasHi /\ v.n > f.hi THEN "too_big" ELSE ""
            [] f.ty = "array"   ->
                 IF v.ty # "array" THEN "invalid_type"
                 ELSE IF Len(v.elems) < f.minLen THEN "too_small" ELSE ""
            [] OTHER -> ""

Issue(path, code) == [path |-> path, code |-> code]

RECURSIVE Flatten(_)
Flatten(ss) == IF ss = <<>> THEN <<>> ELSE Head(ss) \o Flatten(Tail(ss))

\* The element is an object that holds a string under every key.
IsObjectOf(e, keys) ==
  /\ e.ty = "object"
  /\ \A n \in 1..Len(keys) : HasKey(e, keys[n]) /\ Get(e, keys[n]).ty = "string"

\* The issues of the keys of an element object, in the order of the keys.
KeyIssues(e, keys, path) ==
  Flatten([n \in 1..Len(keys) |->
             IF HasKey(e, keys[n]) /\ Get(e, keys[n]).ty = "string" THEN <<>>
             ELSE <<Issue(path \o "." \o keys[n], "invalid_type")>>])

\* The issues of the element at index idx of an array field. A z.union
\* none of whose members takes the element gives one invalid_union issue
\* at the path of the element; the issues of the members are inside it.
ElementIssues(f, e, idx) ==
  LET path == f.name \o "." \o ToString(idx)
  IN  CASE f.elem = "string" ->
             IF e.ty = "string" THEN <<>> ELSE <<Issue(path, "invalid_type")>>
        [] f.elem = "option" ->
             IF e.ty = "string" \/ IsObjectOf(e, SelectOptionSchema) THEN <<>>
             ELSE <<Issue(path, "invalid_union")>>
        [] f.elem = "tab" ->
             IF e.ty # "object" THEN <<Issue(path, "invalid_type")>>
             ELSE KeyIssues(e, TabItemSchema, path)
        [] OTHER -> <<>>

\* The issues of one field against a value: the issue of the field itself,
\* then those of the elements of an array.
FieldIssues(schema, f, value) ==
  (IF FieldIssue(schema, f, value) = "" THEN <<>>
   ELSE <<Issue(f.name, FieldIssue(schema, f, value))>>)
  \o (IF f.ty = "array" /\ HasKey(value, f.name)
         /\ Get(value, f.name).ty = "array"
      THEN Flatten([n \in 1..Len(Get(value, f.name).elems) |->
                      ElementIssues(f, Get(value, f.name).elems[n], n - 1)])
      ELSE <<>>)

\* `${path}: ${err.message}`
DetailOf(issue) == <<Lit(issue.path), Lit(": "), ZodMessage(issue.code)>>

\* result.error.issues.map(err => `${path}: ${err.message}`)
RECURSIVE IssueDetails(_, _, _)
IssueDetails(schema, fields, value) ==
  IF fields = <<>> THEN <<>>
  ELSE MapSeq(DetailOf, FieldIssues(schema, Head(fields), value))
       \o IssueDetails(schema, Tail(fields), value)

\* result.data: the fields of the schema the value holds, in schema order
\* (zod drops the keys the schema does not name).
RECURSIVE ParsedData(_, _)
ParsedData(fields, value) ==
  IF fields = <<>> THEN <<>>
  ELSE (IF HasKey(value, Head(fields).name)
        THEN <<KV(Head(fields).name, Get(value, Head(fields).name))>>
        ELSE <<>>)
       \o ParsedData(Tail(fields), value)

\* The per-kind validators written with try/catch report this error ...
ValidationFailedError(kind) ==
  IF kind \in {"modal", "tabs"}
  THEN <<Lit("Invalid configuration")>>
  ELSE <<Lit("Configuration validation failed")>>

\* Faulty variant: the fields are checked without a look at the type of the
\* candidate itself.
ValidateFieldsOnly(kind, value) ==
  LET schema == SchemaFor(kind)
      details == IssueDetails(schema, schema, value)
  IN  IF details = <<>>
      THEN [success |-> TRUE, data |-> Obj(ParsedData(schema, value)),
            error |-> <<>>, details |-> <<>>]
      ELSE [success |-> FALSE, data |-> Undefined,
            error |-> ValidationFailedError(kind), details |-> details]

\* validate<Kind>Config(config): [success, data, error, details].
Validate(kind, value) ==
  LET schema == SchemaFor(kind)
      details ==
        IF value.ty # "object"
        THEN << <<Lit(""), Lit(": "), ZodMessage("invalid_type")>> >>
        ELSE IssueDetails(schema, schema, value)
  IN  IF details = <<>>
      THEN [success |-> TRUE, data |-> Obj(ParsedData(schema, value)),
            error |-> <<>>, details |-> <<>>]
      ELSE [success |-> FALSE, data |-> Undefined,
            error |-> ValidationFailedError(kind), details |-> details]

(***************************************************************************)
(* Syntax Validator (code mode): validateCode (utils/codeValidator.ts).    *)
(* Babel is outside the repository: which sources it compiles, and the     *)
(* diagnostic it gives a source it rejects, are a fixed table.             *)
(***************************************************************************)
GoodSources ==
  {"export default () => <Box/>", "export default () => <Button/>",
   "export default () => <DataGrid/>"}
BadSources  == {"export default () => <Box", "export default ( => <Button/>"}

BabelDiagnostic(code) == <<Lit("SyntaxError: "), Lit(code)>>

\* validateCode(code, provider): [success, error]
ValidateCode(code) ==
  IF code.ty = "string" /\ code.s \in GoodSources
  THEN [success |-> TRUE, error |-> <<>>]
  ELSE [success |-> FALSE, error |-> BabelDiagnostic(code.s)]

\* a || b on strings: the empty string is falsy.
OrElse(a, b) == IF a # <<>> THEN a ELSE b

\* The entries a for..in loop visits: an object's members in order, an
\* array's elements under their indices, nothing for null.
ForInEntries(value) ==
  IF value.ty = "object" THEN value.members
  ELSE IF value.ty = "array"
  THEN [i \in 1..Len(value.elems) |-> KV(ToString(i - 1), value.elems[i])]
  ELSE <<>>

\* Faulty variant: the provider loop looks at the first entry only.
FirstFailingHeadOnly(entries) ==
  IF entries # <<>> /\ ~ValidateCode(Head(entries).v).success THEN 1 ELSE 0

\* Which entries the provider loop checks before it stops: all of them,
\* up to and including the first that fails.
RECURSIVE FirstFailing(_)
FirstFailing(entries) ==
  IF entries = <<>> THEN 0
  ELSE IF ~ValidateCode(Head(entries).v).success THEN 1
  ELSE LET r == FirstFailing(Tail(entries)) IN IF r = 0 THEN 0 ELSE r + 1

ProviderError(provider, error) ==
  <<Lit("Provider "), Lit(provider), Lit(": ")>> \o error

\* The validation step of one code-mode attempt: [allValid, validationError]
CompileCheck(generatedConfig) ==
  IF TypeOf(generatedConfig) = "object"
  THEN LET entries == ForInEntries(generatedConfig)
           bad == FirstFailing(entries)
       IN  IF bad = 0
           THEN [allValid |-> TRUE, validationError |-> <<>>]
           ELSE [allValid |-> FALSE,
                 validationError |->
                   ProviderError(entries[bad].k,
                                 ValidateCode(entries[bad].v).error)]
  ELSE IF TypeOf(generatedConfig) = "string"
  THEN LET validation == ValidateCode(generatedConfig)
       IN  IF validation.success
           THEN [allValid |-> TRUE, validationError |-> <<>>]
           ELSE [allValid |-> FALSE,
                 validationError |->
                   OrElse(validation.error, <<Lit("Unknown compilation error")>>)]
  ELSE [allValid |-> TRUE, validationError |-> <<>>]

(***************************************************************************)
(* Provider capability registry (constants/providerRegistry.ts).           *)
(***************************************************************************)
RegisteredProviders == {"mui", "chakra", "antd", "shadcn"}

ImportPath(p) ==
  CASE p = "mui"    -> "@mui/material"
    [] p = "chakra" -> "@chakra-ui/react"
    [] p = "antd"   -> "antd"
    [] p = "shadcn" -> "@/components/ui"
    [] OTHER        -> ""

\* The components a source of the model uses.
ComponentsUsed(code) ==
  CASE code = "export default () => <Box/>"      -> {"Box"}
    [] code = "export default () => <Button/>"   -> {"Button"}
    [] code = "export default () => <DataGrid/>" -> {"DataGrid"}
    [] OTHER -> {}

\* allowedComponents of a registry entry.
AllowedComponentNames(p) ==
  CASE p = "mui" ->
         {"Box", "Typography", "Button", "Stack", "Paper", "Grid", "Card",
          "CardContent", "CircularProgress", "IconButton", "TextField",
          "Switch", "Checkbox", "Select", "MenuItem", "Slider", "Alert",
          "Avatar", "Tooltip"}
    [] p = "chakra" ->
         {"Box", "Text", "Button", "Stack", "VStack", "HStack", "Heading",
          "Card", "CardHeader", "CardBody", "CardFooter", "CircularProgress",
          "IconButton", "Input", "Switch", "Checkbox", "Select", "Slider",
          "Alert", "AlertIcon", "AlertTitle", "AlertDescription", "Avatar",
          "Tooltip", "Tabs", "TabList", "TabPanels", "Tab", "TabPanel",
          "Modal", "ModalOverlay", "ModalContent", "ModalHeader",
          "ModalFooter", "ModalBody", "ModalCloseButton"}
    [] p = "antd" ->
         {"Button", "Divider", "Typography", "Space", "Card", "Progress",
          "Flex", "Input", "Switch", "Checkbox", "Select", "Slider", "Alert",
          "Avatar", "Tooltip", "Tabs", "Modal"}
    [] p = "shadcn" ->
         {"Card", "CardHeader", "CardTitle", "CardContent", "Button", "Input",
          "Slider", "Accordion", "AccordionItem", "AccordionTrigger",
          "AccordionContent", "Tabs", "TabsList", "TabsTrigger", "TabsContent",
          "Dialog", "DialogContent", "DialogHeader", "DialogTitle",
          "DialogTrigger", "Select", "SelectTrigger", "SelectValue",
          "SelectContent", "SelectItem", "RadioGroup", "RadioGroupItem",
          "Switch", "Checkbox", "Avatar", "AvatarImage", "AvatarFallback",
          "Tooltip", "TooltipProvider", "TooltipTrigger", "TooltipContent",
          "Alert", "AlertTitle", "AlertDescription", "Label", "Separator",
          "Badge"}
    [] OTHER -> {}

\* String.prototype.toUpperCase on a provider id.
ToUpperCase(p) ==
  CASE p = "mui"        -> "MUI"
    [] p = "chakra"     -> "CHAKRA"
    [] p = "antd"       -> "ANTD"
    [] p = "shadcn"     -> "SHADCN"
    [] p = "aceternity" -> "ACETERNITY"
    [] OTHER            -> p

\* entry.allowedComponents.join(', '), one token per provider.
AllowedComponents(p) == Lit("allowedComponents of " \o p)

DefaultProviders == <<"mui", "chakra", "antd", "shadcn", "aceternity">>

(***************************************************************************)
(* Prompt Builder (part_002, and the per-kind builders of aiService.ts).   *)
(***************************************************************************)
\* Faulty variant: the tabs case embeds the description of the accordion,
\* which is exported by the same validator file.
DescriptionForTabsAsAccordion(componentName) ==
  IF componentName = "tabs" THEN "accordion"
  ELSE IF componentName \in ConfigKinds THEN componentName
  ELSE ""

\* The switch of getSystemPrompt: the kind whose
\* get<Kind>ConfigSchemaDescription() the case of the name calls, "" for a
\* name no case matches.
DescriptionFor(componentName) ==
  CASE componentName = "button"      -> "button"
    [] componentName = "icon-button" -> "icon-button"
    [] componentName = "accordion"   -> "accordion"
    [] componentName = "input"       -> "input"
    [] componentName = "select"      -> "select"
    [] componentName = "radio"       -> "radio"
    [] componentName = "card"        -> "card"
    [] componentName = "modal"       -> "modal"
    [] componentName = "tabs"        -> "tabs"
    [] componentName = "progress"    -> "progress"
    [] OTHER                         -> ""

\* The text get<Kind>ConfigSchemaDescription() returns.
DescriptionText(kind) == <<Lit("schema description of " \o kind)>>

\* let schemaDescription = ""; switch (componentName) { ... }
SchemaDescription(componentName) ==
  IF DescriptionFor(componentName) = "" THEN <<>>
  ELSE DescriptionText(DescriptionFor(componentName))

Instructions == <<Lit("INSTRUCTIONS: modify only the mentioned properties"),
                  Lit("Generate the modified configuration JSON now:")>>

\* promptBuilder.getSystemPrompt
GetSystemPrompt(componentName, currentConfig, userPrompt) ==
  <<Lit("You are a UI configuration generator. Modify the current "),
    Lit(componentName), Lit(" configuration")>>
  \o SchemaDescription(componentName)
  \o <<Lit("CURRENT CONFIGURATION:")>> \o Stringify(currentConfig)
  \o <<Lit("USER REQUEST: ")>> \o userPrompt
  \o Instructions

\* generateSystemPrompt, generateSelectSystemPrompt, ... of aiService.ts
LegacySystemPrompt(componentName, currentConfig, userPrompt) ==
  <<Lit("You are a UI configuration generator. Modify the current "),
    Lit(componentName), Lit(" configuration")>>
  \o SchemaDescription(componentName)
  \o <<Lit("CURRENT CONFIGURATION:")>> \o Stringify(currentConfig)
  \o <<Lit("USER REQUEST: ")>> \o userPrompt
  \o Instructions

\* The feedback block of a retry.
FeedbackBlock(lastValidationError) ==
  <<Lit("PREVIOUS ATTEMPT FAILED WITH ERRORS:")>>
  \o lastValidationError
  \o <<Lit("Please fix these errors and try again.")>>

\* Faulty variant: the feedback block only from the third attempt on (i > 1).
HasFeedbackLate(i, lastValidationError) == i > 1 /\ lastValidationError # <<>>

\* Faulty variant: the feedback block on every retry, an empty error text
\* included (i > 0).
HasFeedbackAlways(i, lastValidationError) == i > 0

\* if (i > 0 && lastValidationError)
HasFeedback(i, lastValidationError) == i > 0 /\ lastValidationError # <<>>

\* The prompt of attempt i (0-based) of a config retry loop.
AttemptPrompt(base, i, lastValidationError) ==
  IF HasFeedback(i, lastValidationError)
  THEN base \o FeedbackBlock(lastValidationError)
  ELSE base

\* a || b on values
Truthy(v) ==
  ~ \/ v.ty \in {"undefined", "null"}
    \/ v.ty = "string" /\ v.s = ""
    \/ v.ty = "number" /\ v.n = 0
    \/ v.ty = "boolean" /\ v.s = "false"

ProviderLine(p) ==
  IF p \in RegisteredProviders
  THEN <<Lit("- "), Lit(ToUpperCase(p)), Lit(": "), AllowedComponents(p)>>
  ELSE <<>>

ProviderImport(p) ==
  IF p \in RegisteredProviders THEN <<Lit(ImportPath(p))>> ELSE <<>>

ProviderName(p) == <<Lit(p)>>

\* typeof prevCode === 'string' ? prevCode : JSON.stringify(prevCode)
CodeStateText(prevCode) ==
  IF prevCode.ty = "string" THEN <<Lit(prevCode.s)>>
  ELSE IF prevCode.ty = "undefined" THEN <<Lit("undefined")>>
  ELSE Stringify(prevCode)

\* promptBuilder.getPlaygroundPrompt
GetPlaygroundPrompt(userPrompt, prevCode, providers) ==
  <<Lit("You are an expert React developer."), Lit("USER REQUEST: ")>>
  \o userPrompt
  \o <<Lit("PROVIDERS TO GENERATE FOR:")>>
  \o Join(MapSeq(ProviderName, providers), <<Lit(", ")>>)
  \o <<Lit("CURRENT CODE STATE:")>> \o CodeStateText(prevCode)
  \o <<Lit("CORE INSTRUCTIONS"), Lit("Import from ")>>
  \o Join(FilterSeq(LAMBDA x : x # <<>>, MapSeq(ProviderImport, providers)),
          <<Lit(", ")>>)
  \o <<Lit("ALLOWED COMPONENTS PER PROVIDER:")>>
  \o Join(FilterSeq(LAMBDA x : x # <<>>, MapSeq(ProviderLine, providers)),
          <<Lit("\n")>>)
  \o <<Lit("OUTPUT FORMAT: a single JSON object keyed by provider"),
       Lit("Generate the JSON now:")>>

\* The prompt generateComponentCode hands generateConfig in iteration i.
CodePrompt(i, prompt, lastError) ==
  IF i = 0 THEN prompt
  ELSE <<Lit("The previous code generated had compilation errors. Please fix them. Error: ")>>
       \o lastError

(***************************************************************************)
(* The environment: the requests callers make and what the generation      *)
(* backend may answer.                                                     *)
(***************************************************************************)
TabItem(v) ==
  Obj(<<KV("label", Str("text")), KV("value", Str(v)), KV("content", Str("text"))>>)

SelectOption(v) == Obj(<<KV("value", Str(v)), KV("label", Str("text"))>>)

ExampleLeaf(f) ==
  CASE f.ty = "string"  ->
         IF f.name \in {"value", "selectedValue"} THEN Str("a") ELSE Str("text")
    [] f.ty = "boolean" -> Bool(TRUE)
    [] f.ty = "color"   -> Str("#1A2B3C")
    [] f.ty = "enum"    -> Str(CHOOSE e \in f.enum : TRUE)
    [] f.ty = "number"  -> Num(IF f.hasLo THEN f.lo + 1 ELSE 1)
    [] f.ty = "array"   ->
         IF f.elem = "tab" THEN Arr(<<TabItem("a"), TabItem("b")>>)
         ELSE Arr(<<Str("a"), Str("b")>>)

\* The first color field of a kind's schema (every kind has one).
FirstColor(kind) ==
  LET schema == SchemaFor(kind)
  IN  schema[CHOOSE i \in 1..Len(schema) :
               /\ schema[i].ty = "color"
               /\ \A j \in 1..(i - 1) : schema[j].ty # "color"].name

ExampleMember(f) == KV(f.name, ExampleLeaf(f))

\* A schema-valid value of the kind: its required top-level fields, and
\* the given leaf as its first color.
ExampleWithColor(kind, color) ==
  Obj(MapSeq(ExampleMember,
             FilterSeq(LAMBDA f : f.required /\ f.parent = "", SchemaFor(kind)))
      \o <<KV(FirstColor(kind), color)>>)

ExampleValid(kind) == ExampleWithColor(kind, Str("#1A2B3C"))

\* The required top-level fields of the kind, and the given leaf as the
\* named field.
ExampleWithField(kind, name, leaf) ==
  Obj(MapSeq(ExampleMember,
             FilterSeq(LAMBDA f : f.required /\ f.parent = "" /\ f.name # name,
                       SchemaFor(kind)))
      \o <<KV(name, leaf)>>)

\* A candidate that violates several fields of the kind: its first color
\* is no hex color and every top-level field holds null.
ExampleInvalid(kind) ==
  Obj(<<KV(FirstColor(kind), Str("red"))>>
      \o MapSeq(LAMBDA f : KV(f.name, Null),
                FilterSeq(LAMBDA f : f.parent = "", SchemaFor(kind))))

\* A schema-valid value of the kind that holds every field of the schema.
ExampleComplete(kind) == Obj(MapSeq(ExampleMember, SchemaFor(kind)))

\* The object without the member of the given key.
Without(value, key) == Obj(FilterSeq(LAMBDA m : m.k # key, value.members))

\* The object whose array under arr has lost the given key of its first
\* element.
WithoutInFirst(value, arr, key) ==
  Obj([n \in 1..Len(value.members) |->
         IF value.members[n].k = arr
         THEN KV(arr, Arr([value.members[n].v.elems
                             EXCEPT ![1] = Without(@, key)]))
         ELSE value.members[n]])

\* A valid select value whose options are option objects.
ExampleObjectOptions ==
  ExampleWithField("select", "options",
                   Arr(<<SelectOption("a"), SelectOption("b")>>))

Intent == <<Lit("make it green")>>

RouterNames == ConfigKinds \cup {"playground", "", "slider"}

NoProviders == [given |-> FALSE, list |-> <<>>]
SomeProviders == [given |-> TRUE, list |-> <<"mui", "chakra">>]

Request(entry, componentName, prompt, currentConfig, prevCode, providers) ==
  [entry |-> entry, componentName |-> componentName, prompt |-> prompt,
   currentConfig |-> currentConfig, prevCode |-> prevCode,
   providers |-> providers]

CurrentConfigOf(name) ==
  IF name \in ConfigKinds THEN ExampleValid(name) ELSE Obj(<<>>)

\* A progress bar at 10 of 100, asked to become green.
ProgressState == Obj(<<KV("value", Num(10)), KV("max", Num(100))>>)

ProgressRequest ==
  Request("generateConfig", "progress", <<Lit("make the bar green")>>,
          ProgressState, Undefined, NoProviders)

\* entry "generateConfig": the router of part_000;
\* entry "legacyGenerateConfig": the router of aiService.ts;
\* entry "generateComponentCode": the code controller.
Requests ==
  { Request("generateConfig", name, Intent, CurrentConfigOf(name), Undefined,
            NoProviders) : name \in RouterNames }
  \cup
  { Request("generateConfig", name, Intent, CurrentConfigOf(name), Undefined,
            SomeProviders) : name \in RouterNames \ ConfigKinds }
  \cup
  { Request("legacyGenerateConfig", name, Intent, CurrentConfigOf(name),
            Undefined, NoProviders) : name \in RouterNames }
  \cup
  { ProgressRequest }
  \cup
  { Request("generateComponentCode", "", prompt, Undefined, prevCode, pr) :
      prompt \in {Intent, <<>>},
      prevCode \in {Undefined, Str("export default () => <Box/>")},
      pr \in {NoProviders, SomeProviders} }

Reply(text)   == [fail |-> FALSE, text |-> text, message |-> <<>>]
Failure(message) == [fail |-> TRUE, text |-> <<>>, message |-> message]

RECURSIVE Prose(_)
Prose(n) == IF n = 0 THEN <<>> ELSE <<Lit("Here is the result:")>> \o Prose(n - 1)

\* Backend failures: a transport error, and an Error without a message.
BackendFailures ==
  { Failure(<<Lit("fetch failed")>>), Failure(<<>>) }

\* Texts that hold no parseable JSON.
ProseOnly == <<Lit("I cannot help with that.")>>
BracedProse == <<Lit("Sure:"), LBrace, Lit("not json"), RBrace>>

ConfigReplies(kind) ==
  { Reply(Prose(n)
          \o Stringify(Obj(ExampleValid(kind).members
                           \o <<KV("unknownKey", Str("x"))>>))
          \o <<Space>>) : n \in 0..MaxProse }
  \cup { Reply(<<FenceJson>> \o Stringify(ExampleInvalid(kind)) \o <<Fence>>),
         Reply(ProseOnly) }

\* Answers to a request that hands over a current state: the state with a
\* green indicator, and the same with another value.
StateReplies(r) ==
  IF r.currentConfig.ty = "object" /\ HasKey(r.currentConfig, "value")
  THEN { Reply(Stringify(Obj(r.currentConfig.members
                             \o <<KV("styles.indicatorColor", Str("#00ff00"))>>))),
         Reply(Stringify(Obj(<<KV("value", Num(50)), KV("max", Num(100)),
                               KV("styles.indicatorColor", Str("#00ff00"))>>))) }
  ELSE {}

ProviderMap(muiSrc, chakraSrc) ==
  Obj(<<KV("mui", Str(muiSrc)), KV("chakra", Str(chakraSrc))>>)

CodeReplies ==
  { Reply(Prose(n) \o Stringify(ProviderMap("export default () => <Box/>",
                                            "export default () => <Button/>")))
      : n \in 0..MaxProse }
  \cup
  { Reply(Stringify(ProviderMap("export default () => <Box/>",
                                "export default ( => <Button/>"))),
    Reply(Stringify(ProviderMap("export default () => <Box",
                                "export default ( => <Button/>"))),
    Reply(Stringify(ProviderMap("export default () => <DataGrid/>",
                                "export default () => <Button/>"))),
    Reply(Stringify(Obj(<<KV("mui", Str("export default () => <Box/>"))>>))),
    Reply(Stringify(Obj(<<>>))),
    Reply(<<ScalarTok(Num(42))>>),
    Reply(<<FenceJson, Space,
            ScalarTok(Str("export default () => <Box/>")), Fence>>),
    Reply(<<Fence, ScalarTok(Str("export default () => <Box")), Fence, Space>>),
    Reply(ProseOnly),
    Reply(BracedProse) }

\* What the backend may answer a call made for the request.
Responses(r) ==
  BackendFailures
  \cup (IF r.entry # "generateComponentCode" /\ r.componentName \in ConfigKinds
        THEN ConfigReplies(r.componentName) \cup StateReplies(r)
        ELSE CodeReplies)

(***************************************************************************)
(* The backend client handle: getModel (part_001:3-15, aiService.ts:54-66).*)
(***************************************************************************)
MissingKeyMessage ==
  <<Lit("GEMINI_API_KEY is not defined in environment variables")>>

\* Faulty variant: a client is built on every call, whether one is held or
\* not.
GetModelRebuilds(handle, key) ==
  IF ~key THEN [ok |-> FALSE, handle |-> handle, built |-> FALSE]
  ELSE [ok |-> TRUE, handle |-> "client", built |-> TRUE]

\* getModel(): [ok, handle, built]; ok = FALSE stands for the Error it
\* throws when no handle is built yet and the environment holds no key;
\* built tells that the call has constructed the client.
GetModel(handle, key) ==
  IF handle # "null" THEN [ok |-> TRUE, handle |-> handle, built |-> FALSE]
  ELSE IF ~key THEN [ok |-> FALSE, handle |-> handle, built |-> FALSE]
  ELSE [ok |-> TRUE, handle |-> "client", built |-> TRUE]

(***************************************************************************)
(* Generation Orchestrator: the state of one request.                      *)
(***************************************************************************)
VARIABLES
  apiKey,               \* process.env.GEMINI_API_KEY is set
  model,                \* the module-level client handle: "null" or "client"
  pc,                   \* "idle", "calling" (a backend call is pending), "done"
  req,                  \* the request being served
  i,                    \* the loop index of the retry loop (0-based)
  attempts,             \* generateWithValidation / per-kind generator: attempts
  lastValidationError,  \* ... and lastValidationError
  lastError,            \* generateComponentCode: lastError
  currentCode,          \* ... and currentCode
  inflight,             \* the prompt of the pending backend call
  result,               \* what the entry point returned / responded
  sent,                 \* history: the prompts sent to the backend, in order
  resps,                \* history: what the backend answered each call
  outcomes              \* history: per attempt, accepted or the error recorded

\* Several requests served at once (one invocation of an entry point each).
VARIABLES
  cReq,                 \* per invocation: the request it serves
  cRun,                 \* per invocation: where it stands, what it sent and returned
  cLet,                 \* per scope: the let variables of the retry loop
  cResps,               \* history, per invocation: what the backend answered it
  cModelWrites          \* history: how often the client handle was assigned

\* A pure function applied to an input.
VARIABLES
  fname,                \* the function applied, "none" before
  arg,                  \* its input
  out                   \* its output

\* POST /api/config/generate: one request to generateComponentConfig.
VARIABLES
  ctl,                  \* the handler: the call it made and where it stands
  http,                 \* the response sent: status 0 while none is
  save,                 \* newPrompt.save(): "none", "pending", "saved", "failed"
  saves                 \* history: the records whose save was started

concVars == <<cReq, cRun, cLet, cResps, cModelWrites>>
pureVars == <<fname, arg, out>>
ctlVars == <<ctl, http, save, saves>>

vars == <<apiKey, model, pc, req, i, attempts, lastValidationError, lastError,
          currentCode, inflight, result, sent, resps, outcomes, concVars,
          pureVars, ctlVars>>

\* The invocations that may be in progress together.
RequestIds == {1, 2}

\* The let variables of a retry loop: i, attempts, lastValidationError (or
\* lastError) and currentCode.
Lets(index, n, err, code) ==
  [i |-> index, attempts |-> n, err |-> err, code |-> code]

\* An invocation's position, the prompts it handed to callGemini and the
\* result it returned.
Run(position, prompts, res) ==
  [pc |-> position, sent |-> prompts, result |-> res]

Result(status, fields, success, config, n, error, lastErr) ==
  [status |-> status, fields |-> fields, success |-> success,
   config |-> config, attempts |-> n, error |-> error, lastError |-> lastErr]

NoResult == Result(0, {}, FALSE, Undefined, 0, <<>>, <<>>)

NoRequest == Request("", "", <<>>, Undefined, Undefined, NoProviders)

\* callGemini(prompt): what awaiting it may yield. With no handle and no
\* key it rejects with getModel's error and the backend is never reached.
CallGeminiAnswers(r) ==
  IF GetModel(model, apiKey).ok THEN Responses(r)
  ELSE { Failure(MissingKeyMessage) }

Init ==
  /\ apiKey \in BOOLEAN
  /\ model = "null"
  /\ pc = "idle"
  /\ req = NoRequest
  /\ i = 0
  /\ attempts = 0
  /\ lastValidationError = <<>>
  /\ lastError = <<>>
  /\ currentCode = Undefined
  /\ inflight = <<>>
  /\ result = NoResult
  /\ sent = <<>>
  /\ resps = <<>>
  /\ outcomes = <<>>
  /\ cReq = [id \in RequestIds |-> NoRequest]
  /\ cRun = [id \in RequestIds |-> Run("idle", <<>>, NoResult)]
  /\ cLet = [id \in RequestIds |-> Lets(0, 0, <<>>, Undefined)]
  /\ cResps = [id \in RequestIds |-> <<>>]
  /\ cModelWrites = 0
  /\ fname = "none"
  /\ arg = <<>>
  /\ out = <<>>
  /\ ctl = [req |-> NoRequest, run |-> Run("idle", <<>>, NoResult),
            lets |-> Lets(0, 0, <<>>, Undefined)]
  /\ http = [status |-> 0, body |-> NoResult]
  /\ save = "none"
  /\ saves = <<>>

\* Faulty variant: the loop bound off by one (i <= MAX_RETRIES).
LoopContinuesInclusive(index, ceiling) == index <= ceiling

\* for (let i = 0; i < MAX_RETRIES; i++)
LoopContinues(index, ceiling) == index < ceiling

\* Faulty variant: every name that is no config kind is taken for the playground.
RoutePlaygroundFallback(componentName) ==
  IF componentName \in ConfigKinds THEN "loop" ELSE "playground"

\* The switch of generateConfig: the kind whose validate<Kind>Config the
\* case of the name hands generateWithValidation, "" for the default case.
ValidatorFor(componentName) ==
  CASE componentName = "button"      -> "button"
    [] componentName = "icon-button" -> "icon-button"
    [] componentName = "accordion"   -> "accordion"
    [] componentName = "input"       -> "input"
    [] componentName = "select"      -> "select"
    [] componentName = "radio"       -> "radio"
    [] componentName = "card"        -> "card"
    [] componentName = "modal"       -> "modal"
    [] componentName = "tabs"        -> "tabs"
    [] componentName = "progress"    -> "progress"
    [] OTHER                         -> ""

\* part_000:69-95: where generateConfig sends a component name.
Route(componentName) ==
  IF componentName = "playground" \/ componentName = "" THEN "playground"
  ELSE IF ValidatorFor(componentName) # "" THEN "loop"
  ELSE "unsupported"

\* aiService.ts:979-1015
LegacyRoute(componentName) ==
  IF componentName \in ConfigKinds THEN "loop" ELSE "unsupported"

NotSupported(componentName) ==
  Result(0, {"success", "error"}, FALSE, Undefined, 0,
         <<Lit("Component "), Lit(componentName), Lit(" is not supported")>>,
         <<>>)

\* providers || ['mui', 'chakra', 'antd', 'shadcn', 'aceternity']
ProvidersOrDefault(providers) ==
  IF providers.given THEN providers.list ELSE DefaultProviders

\* The playground prompt generateConfig builds for a request.
PlaygroundPromptOf(prompt, prevCode, currentConfig, providers) ==
  GetPlaygroundPrompt(prompt,
                      IF Truthy(prevCode) THEN prevCode ELSE currentConfig,
                      ProvidersOrDefault(providers))

\* componentName || 'unknown'
NameOrUnknown(componentName) ==
  IF componentName = "" THEN "unknown" ELSE componentName

\* Faulty variant: the prompt tells whether the client handle is built yet.
BasePromptWithHandle(r) ==
  GetSystemPrompt(NameOrUnknown(r.componentName), r.currentConfig, r.prompt)
  \o <<Lit(model)>>

BasePrompt(r) ==
  IF r.entry = "legacyGenerateConfig"
  THEN LegacySystemPrompt(r.componentName, r.currentConfig, r.prompt)
  ELSE GetSystemPrompt(NameOrUnknown(r.componentName), r.currentConfig, r.prompt)

\* Faulty variant: the select kind has a ceiling of its own.
CeilingByKind(r) ==
  IF r.componentName = "select" THEN LEGACY_MAX_RETRIES
  ELSE IF r.entry = "generateConfig" THEN MAX_RETRIES
  ELSE MAX_CODE_RETRIES

Ceiling(r) ==
  CASE r.entry = "generateConfig"        -> MAX_RETRIES
    [] r.entry = "legacyGenerateConfig"  -> LEGACY_MAX_RETRIES
    [] r.entry = "generateComponentCode" -> MAX_CODE_RETRIES
    [] OTHER -> 0

\* Faulty variant: the rejection is summarized to its error text.
ValidationErrorSummary(validation, fallback) ==
  OrElse(validation.error, fallback)

\* validation.details?.join("\n") || validation.error || "Validation failed"
ValidationErrorText(validation, fallback) ==
  OrElse(Join(validation.details, <<Lit("\n")>>),
         OrElse(validation.error, fallback))

ValidationFallback(r) ==
  IF r.entry = "legacyGenerateConfig"
  THEN <<Lit("Unknown validation error")>>
  ELSE <<Lit("Validation failed")>>

\* Faulty variant: the catch block records a fixed text instead of the message.
CaughtMessageGeneric(failure) == <<Lit("Unknown error occurred")>>

\* catch (error) { lastValidationError = error.message }
CaughtMessage(failure) == failure.message

\* Faulty variant: the extraction is done after the try block.
InTryBlockCallOnly(step) == step = "call"

\* The steps of an attempt the try block encloses (part_000:45-59 and 72-77,
\* aiService.ts:153-196): building the prompt, the backend call, the
\* extraction and the validation.
InTryBlock(step) == step \in {"prompt", "call", "extract", "validate"}

\* An exception of the attempt leaves the function (the promise rejects):
\* the step that throws is not inside the try block.
AttemptThrows(resp) ==
  \/ resp.fail /\ ~InTryBlock("call")
  \/ ~resp.fail /\ ~ExtractJSON(resp.text).ok /\ ~InTryBlock("extract")

\* Faulty variant: the candidate is returned as the backend gave it.
AcceptedValueRaw(validation, generatedConfig) == generatedConfig

\* return { success: true, config: validation.data, attempts }
AcceptedValue(validation, generatedConfig) == validation.data

\* The kind of the validator the request's loop runs: the one the switch
\* of generateConfig handed over, or the per-kind generator's own.
SelectedValidator(r) ==
  IF r.entry = "legacyGenerateConfig" THEN r.componentName
  ELSE ValidatorFor(r.componentName)

\* One pass through the try block of a config retry loop, from the
\* backend's answer on: [accepted, data, error].
ConfigAttempt(r, resp) ==
  IF resp.fail
  THEN [accepted |-> FALSE, data |-> Undefined, error |-> CaughtMessage(resp)]
  ELSE LET extracted == ExtractJSON(resp.text)
       IN  IF ~extracted.ok
           THEN [accepted |-> FALSE, data |-> Undefined,
                 error |-> extracted.message]
           ELSE LET validation == Validate(SelectedValidator(r), extracted.value)
                IN  IF validation.success
                    THEN [accepted |-> TRUE,
                          data |-> AcceptedValue(validation, extracted.value),
                          error |-> <<>>]
                    ELSE [accepted |-> FALSE, data |-> Undefined,
                          error |-> ValidationErrorText(validation,
                                                        ValidationFallback(r))]

ExhaustedError(r) ==
  IF r.entry = "legacyGenerateConfig"
  THEN <<Lit("Failed to generate valid configuration after 5 attempts")>>
  ELSE <<Lit("Retries exhausted")>>

\* The playground branch of generateConfig, from the backend's answer on.
PlaygroundResult(resp) ==
  IF resp.fail
  THEN Result(0, {"success", "error"}, FALSE, Undefined, 0, resp.message, <<>>)
  ELSE LET extracted == ExtractJSON(resp.text)
       IN  IF extracted.ok
           THEN Result(0, {"success", "config"}, TRUE, extracted.value, 0,
                       <<>>, <<>>)
           ELSE Result(0, {"success", "error"}, FALSE, Undefined, 0,
                       extracted.message, <<>>)

\* Faulty variant: the call is not awaited, and the loop issues the next
\* call while it is pending.
SendWithoutAwait(prompt) ==
  /\ model' = GetModel(model, apiKey).handle
  /\ UNCHANGED <<apiKey, concVars, pureVars, ctlVars>>
  /\ inflight' = prompt
  /\ sent' = Append(Append(sent, prompt), prompt)
  /\ pc' = "calling"

\* await callGemini(prompt): the call is issued and the function suspends
\* until it is answered.
Send(prompt) ==
  /\ model' = GetModel(model, apiKey).handle
  /\ UNCHANGED <<apiKey, concVars, pureVars, ctlVars>>
  /\ inflight' = prompt
  /\ sent' = Append(sent, prompt)
  /\ pc' = "calling"

Return(r) ==
  /\ UNCHANGED <<apiKey, model, concVars, pureVars, ctlVars>>
  /\ result' = r
  /\ inflight' = <<>>
  /\ pc' = "done"

\* The promise of the entry point rejects.
Reject ==
  /\ UNCHANGED <<apiKey, model, result, concVars, pureVars, ctlVars>>
  /\ inflight' = <<>>
  /\ pc' = "rejected"

\* generateConfig(request) of part_000, up to its first await.
CallGenerateConfig(r) ==
  /\ pc = "idle"
  /\ r.entry = "generateConfig"
  /\ req' = r
  /\ UNCHANGED <<lastError, currentCode, resps, outcomes>>
  /\ CASE Route(r.componentName) = "playground" ->
            /\ Send(PlaygroundPromptOf(r.prompt, r.prevCode, r.currentConfig,
                                       r.providers))
            /\ UNCHANGED <<i, attempts, lastValidationError, result>>
       [] Route(r.componentName) = "loop" ->
            /\ i' = 0
            /\ attempts' = 1
            /\ lastValidationError' = <<>>
            /\ Send(AttemptPrompt(BasePrompt(r), 0, <<>>))
            /\ UNCHANGED result
       [] OTHER ->
            /\ Return(NotSupported(r.componentName))
            /\ UNCHANGED <<i, attempts, lastValidationError, sent>>

\* generateConfig(request) of aiService.ts, up to its first await.
CallLegacyGenerateConfig(r) ==
  /\ pc = "idle"
  /\ r.entry = "legacyGenerateConfig"
  /\ req' = r
  /\ UNCHANGED <<lastError, currentCode, resps, outcomes>>
  /\ IF LegacyRoute(r.componentName) = "loop"
     THEN /\ i' = 0
          /\ attempts' = 1
          /\ lastValidationError' = <<>>
          /\ Send(AttemptPrompt(BasePrompt(r), 0, <<>>))
          /\ UNCHANGED result
     ELSE /\ Return(NotSupported(r.componentName))
          /\ UNCHANGED <<i, attempts, lastValidationError, sent>>

\* The backend answers the pending call of a config retry loop
\* (generateWithValidation, or a per-kind generator of aiService.ts): the
\* rest of the iteration, and the next iteration up to its await.
ConfigLoopResume(resp) ==
  /\ pc = "calling"
  /\ req.entry \in {"generateConfig", "legacyGenerateConfig"}
  /\ req.componentName \in ConfigKinds
  /\ resp \in CallGeminiAnswers(req)
  /\ LET a == ConfigAttempt(req, resp)
         err == a.error
     IN  /\ resps' = Append(resps, resp)
         /\ outcomes' = Append(outcomes, [accepted |-> a.accepted, error |-> err])
         /\ IF AttemptThrows(resp)
            THEN /\ Reject
                 /\ UNCHANGED <<i, attempts, lastValidationError, sent>>
            ELSE IF a.accepted
            THEN /\ Return(Result(0, {"success", "config", "attempts"}, TRUE,
                                  a.data, attempts, <<>>, <<>>))
                 /\ UNCHANGED <<i, attempts, lastValidationError, sent>>
            ELSE /\ lastValidationError' = err
                 /\ i' = i + 1
                 /\ IF LoopContinues(i + 1, Ceiling(req))
                    THEN /\ attempts' = attempts + 1
                         /\ Send(AttemptPrompt(BasePrompt(req), i + 1, err))
                         /\ UNCHANGED result
                    ELSE /\ Return(Result(0, {"success", "error", "lastError",
                                              "attempts"},
                                          FALSE, Undefined, attempts,
                                          ExhaustedError(req), err))
                         /\ UNCHANGED <<attempts, sent>>
  /\ UNCHANGED <<req, lastError, currentCode>>

\* The backend answers the call of generateConfig's playground branch,
\* called directly (not by the code controller).
PlaygroundResume(resp) ==
  /\ pc = "calling"
  /\ req.entry = "generateConfig"
  /\ Route(req.componentName) = "playground"
  /\ resp \in CallGeminiAnswers(req)
  /\ resps' = Append(resps, resp)
  /\ outcomes' = Append(outcomes,
                        [accepted |-> PlaygroundResult(resp).success,
                         error |-> PlaygroundResult(resp).error])
  /\ IF AttemptThrows(resp) THEN Reject ELSE Return(PlaygroundResult(resp))
  /\ UNCHANGED <<req, i, attempts, lastValidationError, lastError, currentCode,
                 sent>>

\* POST /api/code/generate: generateComponentCode up to its first await.
PostCodeGenerate(r) ==
  /\ pc = "idle"
  /\ r.entry = "generateComponentCode"
  /\ req' = r
  /\ UNCHANGED <<attempts, lastValidationError, resps, outcomes>>
  /\ IF r.prompt = <<>>
     THEN /\ Return(Result(400, {"success", "error"}, FALSE, Undefined, 0,
                           <<Lit("Prompt is required and must be a string")>>,
                           <<>>))
          /\ UNCHANGED <<i, lastError, currentCode, sent>>
     ELSE /\ lastError' = <<>>
          /\ currentCode' = r.prevCode
          /\ i' = 0
          /\ Send(PlaygroundPromptOf(CodePrompt(0, r.prompt, <<>>), r.prevCode,
                                     Undefined, NoProviders))
          /\ UNCHANGED result

\* Faulty variant: the code state of the request is kept for every attempt.
NextCodeStateKept(code, generatedConfig) == code

\* currentCode = generatedConfig (codeController.ts:68): the code state the
\* next iteration hands generateConfig as prevCode.
NextCodeState(code, generatedConfig) == generatedConfig

\* The backend answers the call generateConfig made for the code
\* controller: generateConfig returns, the controller validates, and either
\* responds or starts the next iteration.
CodeLoopResume(resp) ==
  /\ pc = "calling"
  /\ req.entry = "generateComponentCode"
  /\ resp \in CallGeminiAnswers(req)
  /\ resps' = Append(resps, resp)
  /\ LET r == PlaygroundResult(resp)
         check == CompileCheck(r.config)
     IN  IF AttemptThrows(resp)
         THEN /\ Return(Result(500, {"success", "error"}, FALSE, Undefined, 0,
                               <<Lit("Internal server error during code generation")>>,
                               <<>>))
              /\ outcomes' = Append(outcomes,
                                    [accepted |-> FALSE, error |-> <<>>])
              /\ UNCHANGED <<i, lastError, currentCode, sent>>
         ELSE IF ~r.success
         THEN /\ Return([r EXCEPT !.status = 500])
              /\ outcomes' = Append(outcomes,
                                    [accepted |-> FALSE, error |-> r.error])
              /\ UNCHANGED <<i, lastError, currentCode, sent>>
         ELSE IF check.allValid
         THEN /\ Return(Result(200, {"success", "config", "attempts"}, TRUE,
                               r.config, i + 1, <<>>, <<>>))
              /\ outcomes' = Append(outcomes,
                                    [accepted |-> TRUE, error |-> <<>>])
              /\ UNCHANGED <<i, lastError, currentCode, sent>>
         ELSE /\ lastError' = check.validationError
              /\ currentCode' = NextCodeState(currentCode, r.config)
              /\ i' = i + 1
              /\ outcomes' = Append(outcomes,
                                    [accepted |-> FALSE,
                                     error |-> check.validationError])
              /\ IF LoopContinues(i + 1, Ceiling(req))
                 THEN /\ Send(PlaygroundPromptOf(
                                CodePrompt(i + 1, req.prompt,
                                           check.validationError),
                                NextCodeState(currentCode, r.config),
                                Undefined, NoProviders))
                      /\ UNCHANGED result
                 ELSE /\ Return(Result(422, {"success", "error", "lastError"},
                                       FALSE, Undefined, 0,
                                       <<Lit("Failed to generate valid code after 5 attempts")>>,
                                       check.validationError))
                      /\ UNCHANGED sent
  /\ UNCHANGED <<req, attempts, lastValidationError>>

Next ==
  \/ \E r \in Requests : CallGenerateConfig(r)
  \/ \E r \in Requests : CallLegacyGenerateConfig(r)
  \/ \E r \in Requests : PostCodeGenerate(r)
  \/ \E resp \in CallGeminiAnswers(req) : ConfigLoopResume(resp)
  \/ \E resp \in CallGeminiAnswers(req) : PlaygroundResume(resp)
  \/ \E resp \in CallGeminiAnswers(req) : CodeLoopResume(resp)

Spec == Init /\ [][Next]_vars

(***************************************************************************)
(* Concurrent requests: every invocation of generateConfig (part_000) or   *)
(* generateComponentCode runs the same loop on its own let variables; the  *)
(* client handle is the one variable of module scope.                      *)
(***************************************************************************)
loopVars == <<pc, req, i, attempts, lastValidationError, lastError,
              currentCode, inflight, result, sent, resps, outcomes>>

ConcRequests ==
  { Request("generateConfig", "select", Intent, CurrentConfigOf("select"),
            Undefined, NoProviders),
    Request("generateComponentCode", "", Intent, Undefined, Undefined,
            NoProviders) }

\* What the backend may answer an invocation's call.
ConcAnswers(r) ==
  IF ~GetModel(model, apiKey).ok THEN { Failure(MissingKeyMessage) }
  ELSE IF r.componentName \in ConfigKinds
  THEN { Failure(<<Lit("fetch failed")>>),
         Reply(Stringify(ExampleValid(r.componentName))),
         Reply(<<FenceJson>>
               \o Stringify(ExampleWithColor(r.componentName, Str("red")))
               \o <<Fence>>) }
  ELSE { Failure(<<Lit("fetch failed")>>),
         Reply(Stringify(ProviderMap("export default () => <Box/>",
                                     "export default () => <Button/>"))),
         Reply(Stringify(ProviderMap("export default () => <Box/>",
                                     "export default ( => <Button/>"))) }

\* Faulty variant: the let variables are declared at module scope, one set
\* for all invocations.
ScopeOfModule(id) == 1

\* let lastValidationError, attempts (part_000:40-43) and let lastError,
\* currentCode (codeController.ts:21-25) are declared in the function body:
\* every invocation has its own.
ScopeOf(id) == id

\* An invocation up to its first await.
StartInvocation(r) ==
  IF r.entry # "generateComponentCode"
  THEN [run |-> Run("calling", <<AttemptPrompt(BasePrompt(r), 0, <<>>)>>,
                    NoResult),
        lets |-> Lets(0, 1, <<>>, Undefined)]
  ELSE [run |-> Run("calling",
                    <<PlaygroundPromptOf(CodePrompt(0, r.prompt, <<>>),
                                         r.prevCode, Undefined, NoProviders)>>,
                    NoResult),
        lets |-> Lets(0, 0, <<>>, r.prevCode)]

\* generateWithValidation from the answer of its pending call to its next
\* await or its return.
ResumeConfigLoop(r, run, lets, resp) ==
  LET a == ConfigAttempt(r, resp)
  IN  IF a.accepted
      THEN [run |-> Run("done", run.sent,
                        Result(0, {"success", "config", "attempts"}, TRUE,
                               a.data, lets.attempts, <<>>, <<>>)),
            lets |-> lets]
      ELSE IF LoopContinues(lets.i + 1, Ceiling(r))
      THEN [run |-> Run("calling",
                        Append(run.sent,
                               AttemptPrompt(BasePrompt(r), lets.i + 1, a.error)),
                        NoResult),
            lets |-> Lets(lets.i + 1, lets.attempts + 1, a.error, lets.code)]
      ELSE [run |-> Run("done", run.sent,
                        Result(0, {"success", "error", "lastError", "attempts"},
                               FALSE, Undefined, lets.attempts,
                               ExhaustedError(r), a.error)),
            lets |-> Lets(lets.i + 1, lets.attempts, a.error, lets.code)]

\* generateComponentCode from the answer of its pending call to its next
\* await or its response.
ResumeCodeLoop(r, run, lets, resp) ==
  LET g == PlaygroundResult(resp)
      check == CompileCheck(g.config)
  IN  IF ~g.success
      THEN [run |-> Run("done", run.sent, [g EXCEPT !.status = 500]),
            lets |-> lets]
      ELSE IF check.allValid
      THEN [run |-> Run("done", run.sent,
                        Result(200, {"success", "config", "attempts"}, TRUE,
                               g.config, lets.i + 1, <<>>, <<>>)),
            lets |-> lets]
      ELSE IF LoopContinues(lets.i + 1, Ceiling(r))
      THEN [run |-> Run("calling",
                        Append(run.sent,
                               PlaygroundPromptOf(
                                 CodePrompt(lets.i + 1, r.prompt,
                                            check.validationError),
                                 NextCodeState(lets.code, g.config),
                                 Undefined, NoProviders)),
                        NoResult),
            lets |-> Lets(lets.i + 1, lets.attempts, check.validationError,
                          NextCodeState(lets.code, g.config))]
      ELSE [run |-> Run("done", run.sent,
                        Result(422, {"success", "error", "lastError"}, FALSE,
                               Undefined, 0,
                               <<Lit("Failed to generate valid code after 5 attempts")>>,
                               check.validationError)),
            lets |-> Lets(lets.i + 1, lets.attempts, check.validationError,
                          NextCodeState(lets.code, g.config))]

\* The invocation goes on to the given point: its position and its let
\* variables are stored, and a call it issues goes through getModel.
ConcProceed(id, next) ==
  /\ cRun' = [cRun EXCEPT ![id] = next.run]
  /\ cLet' = [cLet EXCEPT ![ScopeOf(id)] = next.lets]
  /\ model' = IF next.run.pc = "calling"
              THEN GetModel(model, apiKey).handle ELSE model
  /\ cModelWrites' = IF next.run.pc = "calling" /\ GetModel(model, apiKey).built
                     THEN cModelWrites + 1 ELSE cModelWrites
  /\ UNCHANGED <<apiKey, loopVars, pureVars, ctlVars>>

ConcGenerateConfig(id, r) ==
  /\ cRun[id].pc = "idle"
  /\ r.entry = "generateConfig"
  /\ cReq' = [cReq EXCEPT ![id] = r]
  /\ ConcProceed(id, StartInvocation(r))
  /\ UNCHANGED cResps

ConcPostCodeGenerate(id, r) ==
  /\ cRun[id].pc = "idle"
  /\ r.entry = "generateComponentCode"
  /\ cReq' = [cReq EXCEPT ![id] = r]
  /\ ConcProceed(id, StartInvocation(r))
  /\ UNCHANGED cResps

ConcConfigLoopResume(id, resp) ==
  /\ cRun[id].pc = "calling"
  /\ cReq[id].entry = "generateConfig"
  /\ resp \in ConcAnswers(cReq[id])
  /\ cResps' = [cResps EXCEPT ![id] = Append(@, resp)]
  /\ ConcProceed(id, ResumeConfigLoop(cReq[id], cRun[id], cLet[ScopeOf(id)],
                                      resp))
  /\ UNCHANGED cReq

ConcCodeLoopResume(id, resp) ==
  /\ cRun[id].pc = "calling"
  /\ cReq[id].entry = "generateComponentCode"
  /\ resp \in ConcAnswers(cReq[id])
  /\ cResps' = [cResps EXCEPT ![id] = Append(@, resp)]
  /\ ConcProceed(id, ResumeCodeLoop(cReq[id], cRun[id], cLet[ScopeOf(id)],
                                    resp))
  /\ UNCHANGED cReq

\* The environment is loaded after the module: GEMINI_API_KEY, missing so
\* far, is set. A call that found no key has rejected at once, so no call
\* is pending then.
EnvironmentLoaded ==
  /\ ~apiKey
  /\ \A id \in RequestIds : cRun[id].pc # "calling"
  /\ apiKey' = TRUE
  /\ UNCHANGED <<model, loopVars, concVars, pureVars, ctlVars>>

NextConc ==
  \/ EnvironmentLoaded
  \/ \E id \in RequestIds, r \in ConcRequests : ConcGenerateConfig(id, r)
  \/ \E id \in RequestIds, r \in ConcRequests : ConcPostCodeGenerate(id, r)
  \/ \E id \in RequestIds : \E resp \in ConcAnswers(cReq[id]) :
       ConcConfigLoopResume(id, resp)
  \/ \E id \in RequestIds : \E resp \in ConcAnswers(cReq[id]) :
       ConcCodeLoopResume(id, resp)

SpecConc == Init /\ [][NextConc]_vars

(***************************************************************************)
(* POST /api/config/generate: generateComponentConfig                      *)
(* (controllers/configController.ts), which calls generateConfig of        *)
(* services/aiService.ts and appends a Prompt record on success.           *)
(***************************************************************************)
Body(componentName, prompt, currentConfig) ==
  [componentName |-> componentName, prompt |-> prompt,
   currentConfig |-> currentConfig]

\* req.body; "" and <<>> stand for a missing or empty field.
ConfigBodies ==
  { Body(n, p, c) : n \in {"select", "slider", ""},
                    p \in {Intent, <<>>},
                    c \in {ExampleValid("select"), Undefined} }

BadRequest(message) ==
  Result(400, {"success", "error"}, FALSE, Undefined, 0, <<Lit(message)>>, <<>>)

\* Faulty variant: the handler awaits the save before it responds.
SaveAwaitedBeforeResponse == TRUE

\* newPrompt.save(); (configController.ts:48): the promise is not awaited.
SaveAwaited == FALSE

Respond(status, body) ==
  http' = [status |-> status, body |-> [body EXCEPT !.status = status]]

\* new Prompt({ prompt, responseConfig: JSON.stringify(result.config),
\*              currentConfig: JSON.stringify(currentConfig) })
PromptRecord(request, r) ==
  [prompt |-> request.prompt,
   responseConfig |-> Stringify(r.config),
   currentConfig |-> Stringify(request.currentConfig)]

\* Faulty variant: the record is saved before the result is looked at.
ControllerContinueSavesAll(request, r) ==
  /\ save' = "pending"
  /\ saves' = Append(saves, PromptRecord(request, r))
  /\ IF r.success THEN Respond(200, r) ELSE Respond(400, r)

\* configController.ts:41-52: the handler from generateConfig's result on.
ControllerContinue(request, r) ==
  IF r.success
  THEN /\ save' = "pending"
       /\ saves' = Append(saves, PromptRecord(request, r))
       /\ IF SaveAwaited THEN UNCHANGED http ELSE Respond(200, r)
  ELSE /\ Respond(400, r)
       /\ UNCHANGED <<save, saves>>

\* The handler up to its await of generateConfig, or to its response.
PostConfigGenerate(body) ==
  /\ ctl.run.pc = "idle"
  /\ UNCHANGED <<apiKey, loopVars, concVars, pureVars>>
  /\ IF body.componentName = ""
     THEN /\ Respond(400, BadRequest("componentName is required and must be a string"))
          /\ ctl' = [ctl EXCEPT !.run.pc = "done"]
          /\ UNCHANGED <<save, saves, model>>
     ELSE IF body.prompt = <<>>
     THEN /\ Respond(400, BadRequest("prompt is required and must be a string"))
          /\ ctl' = [ctl EXCEPT !.run.pc = "done"]
          /\ UNCHANGED <<save, saves, model>>
     ELSE IF ~Truthy(body.currentConfig) \/ TypeOf(body.currentConfig) # "object"
     THEN /\ Respond(400, BadRequest("currentConfig is required and must be an object"))
          /\ ctl' = [ctl EXCEPT !.run.pc = "done"]
          /\ UNCHANGED <<save, saves, model>>
     ELSE LET r == Request("legacyGenerateConfig", body.componentName,
                           body.prompt, body.currentConfig, Undefined,
                           NoProviders)
          IN  IF LegacyRoute(r.componentName) = "loop"
              THEN /\ ctl' = [req |-> r, run |-> StartInvocation(r).run,
                              lets |-> StartInvocation(r).lets]
                   /\ model' = GetModel(model, apiKey).handle
                   /\ UNCHANGED <<http, save, saves>>
              ELSE /\ ctl' = [ctl EXCEPT !.req = r,
                                         !.run = Run("done", <<>>,
                                                     NotSupported(r.componentName))]
                   /\ ControllerContinue(r, NotSupported(r.componentName))
                   /\ UNCHANGED model

\* The generator the handler awaits goes on to the given point: it waits
\* for its next call, or it has returned and the handler goes on.
ControllerProceed(next) ==
  /\ ctl' = [ctl EXCEPT !.run = next.run, !.lets = next.lets]
  /\ IF next.run.pc = "calling"
     THEN /\ model' = GetModel(model, apiKey).handle
          /\ UNCHANGED <<http, save, saves>>
     ELSE /\ ControllerContinue(ctl.req, next.run.result)
          /\ UNCHANGED model

\* The backend answers the pending call of the generator the handler
\* awaits: the generator goes on to its next call, or returns and the
\* handler responds.
ConfigGenerateResume(resp) ==
  /\ ctl.run.pc = "calling"
  /\ resp \in ConcAnswers(ctl.req)
  /\ UNCHANGED <<apiKey, loopVars, concVars, pureVars>>
  /\ ControllerProceed(ResumeConfigLoop(ctl.req, ctl.run, ctl.lets, resp))

\* The save settles: the record is stored, or the store fails.
SaveSettles(outcome) ==
  /\ save = "pending"
  /\ save' = outcome
  /\ UNCHANGED <<apiKey, model, loopVars, concVars, pureVars, ctl, saves>>
  /\ IF ~SaveAwaited THEN UNCHANGED http
     ELSE IF outcome = "saved" THEN Respond(200, ctl.run.result)
     ELSE Respond(500, Result(500, {"success", "error", "details"}, FALSE,
                              Undefined, 0, <<Lit("Internal server error")>>,
                              <<>>))

NextCtl ==
  \/ \E body \in ConfigBodies : PostConfigGenerate(body)
  \/ \E resp \in ConcAnswers(ctl.req) : ConfigGenerateResume(resp)
  \/ \E outcome \in {"saved", "failed"} : SaveSettles(outcome)

SpecCtl == Init /\ [][NextCtl]_vars

(***************************************************************************)
(* The validators and the extractor applied to inputs, one at a time.      *)
(***************************************************************************)
Input(kind, field, text, value, before, after, wrapped) ==
  [kind |-> kind, field |-> field, s |-> text, value |-> value,
   before |-> before, after |-> after, text |-> wrapped]

ColorTexts == {"#1A2B3C", "#00ff00", "#ZZZZZZ", "#fff", "red", "#1A2B3C4D"}

\* The fields of a kind's schema that hold a color: those with the hex
\* pattern, and radio's color and modal's styles.overlayColor.
ColorFields(kind) ==
  { SchemaFor(kind)[n].name : n \in { m \in 1..Len(SchemaFor(kind)) :
                                        SchemaFor(kind)[m].ty = "color" } }
  \cup (IF kind = "radio" THEN {"color"} ELSE {})
  \cup (IF kind = "modal" THEN {"styles.overlayColor"} ELSE {})

\* The field of a kind that holds the selected option.
SelectedField(kind) == IF kind = "select" THEN "value" ELSE "selectedValue"

\* Candidates handed to a validator: an otherwise valid value of the kind
\* with one color field set, or with a selection.
ValidateInputs ==
  { Input(kind, field, c, ExampleWithField(kind, field, Str(c)), <<>>, <<>>, <<>>) :
      kind \in ConfigKinds, field \in UNION { ColorFields(k) : k \in ConfigKinds },
      c \in ColorTexts }
  \cup
  { Input(kind, SelectedField(kind), c,
          ExampleWithField(kind, SelectedField(kind), Str(c)), <<>>, <<>>, <<>>) :
      kind \in {"select", "radio"}, c \in {"a", "b", "c"} }

ProseTokens == {Lit("Here is the result:"), Space, LBrace, RBrace}

\* The texts of at most n tokens.
ProseTexts(n) == UNION { [1..k -> ProseTokens] : k \in 0..n }

\* No code fence, a ```json fence, a plain ``` fence.
FencePairs ==
  { <<<<>>, <<>>>>, <<<<FenceJson>>, <<Fence>>>>, <<<<Fence>>, <<Fence>>>> }

\* Texts handed to the extractor: the serialization of a valid value of a
\* kind, in code fences or not, with prose before and after.
ExtractInputs ==
  { Input(kind, "", "", ExampleValid(kind), before, after,
          before \o fence[1] \o Stringify(ExampleValid(kind)) \o fence[2]
            \o after) :
      kind \in ConfigKinds, fence \in FencePairs,
      before \in ProseTexts(MaxProse), after \in ProseTexts(MaxProse) }

\* Raw texts handed to the extractor: JSON that is no object (a number, a
\* string, an array, null), bare and in code fences, prose with and without
\* braces, the empty text, and the serialization of an object.
ExtractRawInputs ==
  { Input("", "", "", Undefined, <<>>, <<>>,
          fence[1] \o <<ScalarTok(v)>> \o fence[2]) :
      fence \in FencePairs,
      v \in {Num(42), Str("x"), Arr(<<Str("a"), Str("b")>>), Null, Bool(TRUE)} }
  \cup
  { Input("", "", "", Undefined, <<>>, <<>>, text) :
      text \in {<<>>, ProseOnly, BracedProse,
                <<Lit("Here is the result:"), ScalarTok(Num(42))>>,
                Stringify(ExampleValid("progress")),
                <<Lit("Here is the result:")>>
                  \o Stringify(ExampleValid("progress"))} }

\* The fields of a kind's schema that are not .optional().
RequiredFields(kind) ==
  { SchemaFor(kind)[n].name : n \in { m \in 1..Len(SchemaFor(kind)) :
                                        SchemaFor(kind)[m].required } }

\* Candidates handed to a validator: a valid value of the kind (field ""),
\* and that value without one of its required fields, a key of the first
\* element of its array included.
RemovedFieldInputs ==
  { Input(kind, "", "", ExampleComplete(kind), <<>>, <<>>, <<>>) :
      kind \in ConfigKinds }
  \cup
  UNION { { Input(kind, field, "", Without(ExampleComplete(kind), field),
                  <<>>, <<>>, <<>>) : field \in RequiredFields(kind) } :
          kind \in ConfigKinds }
  \cup
  { Input("tabs", "tabs.0." \o key, "",
          WithoutInFirst(ExampleComplete("tabs"), "tabs", key),
          <<>>, <<>>, <<>>) : key \in {"label", "value", "content"} }
  \cup
  { Input("select", "", "", ExampleObjectOptions, <<>>, <<>>, <<>>) }
  \cup
  { Input("select", "options.0." \o key, "",
          WithoutInFirst(ExampleObjectOptions, "options", key),
          <<>>, <<>>, <<>>) : key \in {"value", "label"} }

\* Top-level candidates that are no object.
NonObjects == {Null, Num(42), Str("x"), Bool(TRUE), Arr(<<Str("a"), Str("b")>>)}

NonObjectInputs ==
  { Input(kind, "", "", v, <<>>, <<>>, <<>>) :
      kind \in ConfigKinds, v \in NonObjects }

ApplyValidate(input) ==
  /\ fname = "none"
  /\ input.field \in ColorFields(input.kind) \cup {SelectedField(input.kind)}
  /\ fname' = "validate"
  /\ arg' = input
  /\ out' = Validate(input.kind, input.value)
  /\ UNCHANGED <<apiKey, model, loopVars, concVars, ctlVars>>

ApplyExtractJSON(input) ==
  /\ fname = "none"
  /\ fname' = "extractJSON"
  /\ arg' = input
  /\ out' = ExtractJSON(input.text)
  /\ UNCHANGED <<apiKey, model, loopVars, concVars, ctlVars>>

\* extractJSON applied to a raw text.
ApplyExtractJSONRaw(input) ==
  /\ fname = "none"
  /\ fname' = "extractJSON raw"
  /\ arg' = input
  /\ out' = ExtractJSON(input.text)
  /\ UNCHANGED <<apiKey, model, loopVars, concVars, ctlVars>>

\* The kind's validator applied to a valid value less a required field.
ApplyValidateRemoved(input) ==
  /\ fname = "none"
  /\ fname' = "validate removed"
  /\ arg' = input
  /\ out' = Validate(input.kind, input.value)
  /\ UNCHANGED <<apiKey, model, loopVars, concVars, ctlVars>>

\* The kind's validator applied to a candidate that is no object.
ApplyValidateNonObject(input) ==
  /\ fname = "none"
  /\ fname' = "validate non-object"
  /\ arg' = input
  /\ out' = Validate(input.kind, input.value)
  /\ UNCHANGED <<apiKey, model, loopVars, concVars, ctlVars>>

NextPure ==
  \/ \E input \in ValidateInputs : ApplyValidate(input)
  \/ \E input \in ExtractInputs : ApplyExtractJSON(input)
  \/ \E input \in ExtractRawInputs : ApplyExtractJSONRaw(input)
  \/ \E input \in RemovedFieldInputs : ApplyValidateRemoved(input)
  \/ \E input \in NonObjectInputs : ApplyValidateNonObject(input)

SpecPure == Init /\ [][NextPure]_vars

(***************************************************************************)
(* Properties.                                                             *)
(***************************************************************************)
IsConfigLoop ==
  /\ req.entry \in {"generateConfig", "legacyGenerateConfig"}
  /\ req.componentName \in ConfigKinds

IsCodeMode == req.entry = "generateComponentCode"

\* The backend answered with text in which no JSON can be parsed.
Malformed(resp) == ~resp.fail /\ ~JSONParse(CleanedText(resp.text)).ok

AllMalformed == \A k \in 1..Len(resps) : Malformed(resps[k])

\* The prompt a config loop is expected to send after an attempt that
\* failed with the given error text.
RetryPrompt(error) ==
  BasePrompt(req) \o (IF error # <<>> THEN FeedbackBlock(error) ELSE <<>>)

\* C1: for every config kind, on both retry loops (generateWithValidation
\* and the per-kind generators), a backend that answers every call with
\* malformed text is called exactly ceiling times, never more, and the
\* loop ends in a failure result whose attempts field is the ceiling.
C1_RetryBudget ==
  (IsConfigLoop /\ AllMalformed) =>
    /\ Len(sent) <= Ceiling(req)
    /\ pc = "done" =>
         /\ ~result.success
         /\ "attempts" \in result.fields
         /\ result.attempts = Ceiling(req)
         /\ Len(sent) = Ceiling(req)
         /\ Len(resps) = Ceiling(req)

C1_Witness ==
  /\ pc = "done"
  /\ req.entry = "generateConfig"
  /\ req.componentName = "select"
  /\ AllMalformed
  /\ Len(resps) = 3
  /\ result.attempts = 3

\* C2: a result with success = true carries a value that is accepted again
\* by the validator of its kind (config kinds) or by the compile check
\* (playground kind and code mode).
C2_SuccessRevalidates ==
  (pc = "done" /\ result.success) =>
    IF IsConfigLoop
    THEN Validate(req.componentName, result.config).success
    ELSE CompileCheck(result.config).allValid

\* A success, or an exhaustion of the retry budget.
IsSuccessOrExhaustion ==
  /\ pc = "done"
  /\ \/ result.success
     \/ "lastError" \in result.fields

\* C3: every success or exhaustion result reports an attempt count between
\* 1 and the retry ceiling of its path.
C3_AttemptCountReported ==
  IsSuccessOrExhaustion =>
    /\ "attempts" \in result.fields
    /\ result.attempts >= 1
    /\ result.attempts <= Ceiling(req)

\* C4: in a config loop, a backend call that fails in attempt k below the
\* ceiling is followed by attempt k+1, whose prompt is the base prompt with
\* the failure's message as the feedback text.
C4_BackendFailureRetried ==
  IsConfigLoop =>
    \A k \in 1..Len(resps) :
      (resps[k].fail /\ k < Ceiling(req)) =>
        /\ Len(sent) >= k + 1
        /\ sent[k + 1] = RetryPrompt(resps[k].message)
        /\ Contains(sent[k + 1], resps[k].message)

C4_Witness ==
  /\ IsConfigLoop
  /\ req.entry = "generateConfig"
  /\ Len(resps) >= 2
  /\ resps[2] = Failure(<<Lit("fetch failed")>>)
  /\ Len(sent) >= 3
  /\ Contains(sent[3], FeedbackBlock(<<Lit("fetch failed")>>))

\* C5: in a config loop, an extraction failure in attempt k below the
\* ceiling is followed by attempt k+1, whose prompt carries the extraction
\* error message as feedback.
C5_ExtractionFailureRetried ==
  IsConfigLoop =>
    \A k \in 1..Len(resps) :
      (Malformed(resps[k]) /\ k < Ceiling(req)) =>
        /\ Len(sent) >= k + 1
        /\ sent[k + 1] = RetryPrompt(ParseErrorMessage)

C5_Witness ==
  /\ IsConfigLoop
  /\ Len(resps) >= 1
  /\ Malformed(resps[1])
  /\ Len(sent) >= 2
  /\ Contains(sent[2], ParseErrorMessage)

\* C6: in code mode a request whose shape is valid ends only in an accepted
\* result or in exhaustion after the ceiling; a single failed backend call
\* or extraction does not end it.
C6_CodeFailuresAbsorbed ==
  (IsCodeMode /\ pc = "done" /\ req.prompt # <<>>) =>
    \/ result.status = 200
    \/ result.status = 422 /\ Len(sent) = Ceiling(req)

SupportedNames(entry) ==
  IF entry = "generateConfig" THEN ConfigKinds \cup {"playground"}
  ELSE ConfigKinds

UnsupportedFailsAtOnce ==
  /\ pc = "done"
  /\ ~result.success
  /\ "attempts" \notin result.fields
  /\ attempts = 0
  /\ Len(sent) = 0

\* C7 as stated: generateConfig with a componentName that is none of the
\* supported kinds fails at once, with no backend call, no prompt and no
\* attempt.
C7_AnyUnsupportedName ==
  (/\ req.entry \in {"generateConfig", "legacyGenerateConfig"}
   /\ req.componentName \notin SupportedNames(req.entry)) =>
    UnsupportedFailsAtOnce

\* C7 (amended): generateConfig with a non-empty componentName that is none
\* of the supported kinds fails at once, with no backend call, no prompt
\* and no attempt.
C7_UnsupportedKindFailsAtOnce ==
  (/\ req.entry \in {"generateConfig", "legacyGenerateConfig"}
   /\ req.componentName # ""
   /\ req.componentName \notin SupportedNames(req.entry)) =>
    UnsupportedFailsAtOnce

C7_Witness ==
  /\ req.entry = "generateConfig"
  /\ req.componentName = "slider"
  /\ pc = "done"
  /\ result.fields = {"success", "error"}
  /\ sent = <<>>

\* C8: whenever attempt k+1 is made, attempt k failed and the prompt of
\* attempt k+1 contains the error text recorded for attempt k; the error
\* text of an earlier attempt is in it only as far as attempt k's text
\* holds it.
C8_FeedbackPropagation ==
  \A k \in 1..(Len(sent) - 1) :
    /\ k <= Len(outcomes)
    /\ ~outcomes[k].accepted
    /\ Contains(sent[k + 1], outcomes[k].error)
    /\ \A j \in 1..(k - 1) :
         (/\ outcomes[j].error # <<>>
          /\ ~Contains(outcomes[k].error, outcomes[j].error)) =>
           ~Contains(sent[k + 1], outcomes[j].error)

C8_Witness ==
  /\ IsConfigLoop
  /\ Len(sent) >= 3
  /\ outcomes[1].error = ParseErrorMessage
  /\ outcomes[2].error \notin {<<>>, ParseErrorMessage}
  /\ Contains(sent[3], outcomes[2].error)

RequestedProviders == ProvidersOrDefault(req.providers)

\* C9: a code request is answered with success only if the generated value
\* is an object that holds, for every requested provider, a source that
\* passed validateCode.
C9_AllProvidersValidated ==
  (IsCodeMode /\ pc = "done" /\ result.success) =>
    /\ result.config.ty = "object"
    /\ \A n \in 1..Len(RequestedProviders) :
         /\ HasKey(result.config, RequestedProviders[n])
         /\ ValidateCode(Get(result.config, RequestedProviders[n])).success

\* The entries of a generated provider map whose source fails validateCode.
FailingEntries(value) ==
  { n \in 1..Len(value.members) : ~ValidateCode(value.members[n].v).success }

\* C10: in code mode, an attempt whose provider map holds a source that
\* fails validateCode is rejected, and the error recorded for it names a
\* failing provider with the compiler's diagnostic.
C10_FailingProviderRejects ==
  IsCodeMode =>
    \A k \in 1..Len(outcomes) :
      LET parsed == JSONParse(CleanedText(resps[k].text))
      IN  (/\ ~resps[k].fail
           /\ parsed.ok
           /\ parsed.value.ty = "object"
           /\ FailingEntries(parsed.value) # {}) =>
            /\ ~outcomes[k].accepted
            /\ \E n \in FailingEntries(parsed.value) :
                 outcomes[k].error =
                   <<Lit("Provider "), Lit(parsed.value.members[n].k), Lit(": ")>>
                   \o BabelDiagnostic(parsed.value.members[n].v.s)
            /\ (pc = "done" /\ k = Len(outcomes)) =>
                 (~result.success /\ result.status # 200)

C10_Witness ==
  /\ IsCodeMode
  /\ Len(outcomes) >= 1
  /\ ~outcomes[1].accepted
  /\ outcomes[1].error =
       <<Lit("Provider "), Lit("chakra"), Lit(": ")>>
       \o BabelDiagnostic("export default ( => <Button/>")
  /\ Len(sent) >= 2

\* C11: when the backend client cannot be built because the key is missing,
\* the request fails at once: the failure is met once, no further attempt
\* is made, and the outcome is no exhaustion result.
C11_MissingCredentialsFatal ==
  (~apiKey /\ pc # "idle") =>
    /\ Len(sent) <= 1
    /\ pc = "done" =>
         /\ "lastError" \notin result.fields
         /\ "attempts" \notin result.fields

\* C12: with the backend client available, generateConfig (either router)
\* completes with a result that has a success flag, whatever the backend
\* answers and whatever the extraction and the validation make of it; its
\* promise never rejects.
C12_NeverThrows ==
  (apiKey /\ req.entry \in {"generateConfig", "legacyGenerateConfig"}) =>
    /\ pc # "rejected"
    /\ pc = "done" =>
         /\ "success" \in result.fields
         /\ result.success \in BOOLEAN
         /\ result.success => "config" \in result.fields
         /\ ~result.success => "error" \in result.fields

C12_Witness ==
  /\ apiKey
  /\ IsConfigLoop
  /\ pc = "done"
  /\ \E k \in 1..Len(resps) : resps[k].fail
  /\ \E k \in 1..Len(resps) : Malformed(resps[k])
  /\ \E k \in 1..Len(outcomes) :
       outcomes[k].error \notin {<<>>, ParseErrorMessage} /\ ~resps[k].fail
  /\ "success" \in result.fields

\* C13: within a request the attempts are sequential: the outcome of every
\* answered call is recorded before the next call is issued, a call is
\* pending exactly while the request waits for it, and never are two calls
\* pending.
C13_AttemptsSequential ==
  /\ Len(outcomes) = Len(resps)
  /\ Len(sent) - Len(resps) \in {0, 1}
  /\ (pc = "calling") <=> (Len(sent) = Len(resps) + 1)
  /\ \A k \in 2..Len(sent) : ~outcomes[k - 1].accepted

C13_Witness ==
  /\ req.entry = "legacyGenerateConfig"
  /\ pc = "calling"
  /\ Len(sent) = 5
  /\ Len(outcomes) = 4

\* The invocation served alone: its state after the given answers.
RECURSIVE Alone(_, _)
Alone(r, answers) ==
  IF answers = <<>> THEN StartInvocation(r)
  ELSE LET before == Alone(r, SubSeq(answers, 1, Len(answers) - 1))
           resp == answers[Len(answers)]
       IN  IF r.entry = "generateConfig"
           THEN ResumeConfigLoop(r, before.run, before.lets, resp)
           ELSE ResumeCodeLoop(r, before.run, before.lets, resp)

\* C14: however the steps of concurrent requests interleave, the attempt
\* counter, the recorded error text, the prompts and the result of each
\* request are what the request yields when served alone with the same
\* backend answers; the client handle is assigned at most once.
C14_RequestsIsolated ==
  /\ \A id \in RequestIds :
       cRun[id].pc # "idle" =>
         LET alone == Alone(cReq[id], cResps[id])
         IN  /\ cRun[id] = alone.run
             /\ cLet[ScopeOf(id)] = alone.lets
  /\ cModelWrites <= 1
  /\ (model # "null") <=> (cModelWrites = 1)

C14_Witness ==
  /\ cRun[1].pc = "calling"
  /\ cRun[2].pc = "calling"
  /\ cReq[1].entry = "generateConfig"
  /\ cReq[2].entry = "generateConfig"
  /\ Len(cRun[1].sent) = 3
  /\ Len(cRun[2].sent) = 2
  /\ cLet[1].err # cLet[2].err
  /\ cLet[1].err # <<>>
  /\ cLet[2].err # <<>>
  /\ cModelWrites = 1

\* C15: once generateConfig has returned a success to
\* generateComponentConfig, the 200 response with that result is sent in
\* the same step that starts the save, and it stays as it is while the
\* save is pending, after it succeeded and after it failed.
C15_SaveNeverBlocksResponse ==
  /\ (ctl.run.pc = "done" /\ ctl.run.result.success) =>
       /\ save \in {"pending", "saved", "failed"}
       /\ http.status = 200
       /\ http.body = [ctl.run.result EXCEPT !.status = 200]
  /\ save # "none" => (ctl.run.pc = "done" /\ ctl.run.result.success)

C15_Witness ==
  /\ save = "failed"
  /\ http.status = 200
  /\ http.body.success
  /\ http.body.attempts = 2
  /\ http.body.config = Validate("select", ExampleValid("select")).data

\* A request that ended in exhaustion: a config retry loop that returned a
\* failure, or the code controller's response after its last attempt was
\* rejected by the compile check.
IsExhaustion ==
  /\ pc = "done"
  /\ \/ IsConfigLoop /\ ~result.success
     \/ IsCodeMode /\ result.status = 422

\* C16: a request that ends in exhaustion returns the error text recorded
\* for its final attempt, the attempt whose index is the ceiling, and an
\* attempt count equal to the ceiling.
C16_ExhaustionResult ==
  IsExhaustion =>
    /\ Len(outcomes) = Ceiling(req)
    /\ "lastError" \in result.fields
    /\ result.lastError = outcomes[Ceiling(req)].error
    /\ "attempts" \in result.fields
    /\ result.attempts = Ceiling(req)

\* C17: in both retry loops the first accepted attempt ends the request:
\* no attempt before it was accepted, no call is made after it, and the
\* result is a success that carries that attempt's validated value and
\* that attempt's index as the attempt count.
C17_StopsAtFirstAccepted ==
  (IsConfigLoop \/ IsCodeMode) =>
    \A k \in 1..Len(outcomes) :
      outcomes[k].accepted =>
        LET candidate == JSONParse(CleanedText(resps[k].text)).value
        IN  /\ k = Len(outcomes)
            /\ Len(sent) = k
            /\ \A j \in 1..(k - 1) : ~outcomes[j].accepted
            /\ pc = "done"
            /\ result.success
            /\ "attempts" \in result.fields
            /\ result.attempts = k
            /\ result.config =
                 IF IsConfigLoop
                 THEN Obj(ParsedData(SchemaFor(req.componentName), candidate))
                 ELSE candidate

C17_Witness ==
  /\ IsConfigLoop
  /\ pc = "done"
  /\ Len(outcomes) = 2
  /\ outcomes[2].accepted
  /\ result.attempts = 2
  /\ HasKey(JSONParse(CleanedText(resps[2].text)).value, "unknownKey")
  /\ ~HasKey(result.config, "unknownKey")

\* C18: the validator of select (value) and of radio (selectedValue)
\* rejects a candidate whose selected value is none of its options, and
\* an issue it reports is about the selected-value field.
C18_SelectedValueAmongOptions ==
  (fname = "validate" /\ arg.field = SelectedField(arg.kind)) =>
    LET options == Get(arg.value, "options").elems
    IN  (\A n \in 1..Len(options) : options[n] # Str(arg.s)) =>
          /\ ~out.success
          /\ \E n \in 1..Len(out.details) :
               out.details[n][1] = Lit(arg.field)

\* The strings of ColorTexts that are # followed by 6 hex digits.
SixDigitHex == {"#1A2B3C", "#00ff00"}

\* C19: a candidate that is valid but for one color field is accepted
\* exactly when that field holds # followed by 6 hex digits of either
\* case; so #ZZZZZZ, #fff and red are rejected and #1A2B3C is accepted.
C19_ColorFieldsHexOnly ==
  (fname = "validate" /\ arg.field \in ColorFields(arg.kind)) =>
    (out.success <=> arg.s \in SixDigitHex)

BraceFree(text) ==
  \A n \in 1..Len(text) : text[n] \notin {LBrace, RBrace}

\* C20 as stated: extractJSON gives back the value whose serialization it
\* is handed, whatever prose or code fences surround it.
C20_RoundTripAnyProse ==
  fname = "extractJSON" => (out.ok /\ out.value = arg.value)

\* C20 (amended): extractJSON gives back the value whose serialization it
\* is handed in code fences or not, when the prose before and after it
\* holds no brace.
C20_RoundTripBraceFreeProse ==
  (fname = "extractJSON" /\ BraceFree(arg.before) /\ BraceFree(arg.after)) =>
    (out.ok /\ out.value = arg.value)

C20_Witness ==
  /\ fname = "extractJSON"
  /\ arg.kind = "card"
  /\ arg.before = <<Lit("Here is the result:")>>
  /\ arg.after = <<Lit("Here is the result:")>>
  /\ Contains(arg.text, <<FenceJson>>)
  /\ out.ok
  /\ out.value = ExampleValid("card")

\* The text holds a piece that parses as a JSON object.
HoldsObject(text) ==
  \E a \in 1..Len(text), b \in 1..Len(text) :
    /\ JSONParse(SubSeq(text, a, b)).ok
    /\ JSONParse(SubSeq(text, a, b)).value.ty = "object"

\* C21: extractJSON returns a JSON object or fails with the parse error;
\* on a raw text that holds no parseable JSON object (JSON that is a
\* number, a string, an array or null included) it fails.
C21_FailsWithoutObject ==
  fname = "extractJSON raw" =>
    /\ out.ok => out.value.ty = "object"
    /\ ~out.ok => out.message = ParseErrorMessage
    /\ ~HoldsObject(arg.text) => ~out.ok

\* What the value violates of the kind's schema: the issues of its fields
\* and of the elements of its arrays (an element no member of a union takes
\* is one violation, at the element).
Violated(kind, value) ==
  UNION { { FieldIssues(SchemaFor(kind), SchemaFor(kind)[n], value)[m] :
              m \in 1..Len(FieldIssues(SchemaFor(kind), SchemaFor(kind)[n],
                                       value)) } :
          n \in 1..Len(SchemaFor(kind)) }

\* C22: in a config loop, an attempt whose candidate violates n >= 1
\* fields is rejected with an error text of exactly n entries, one
\* fieldPath: message entry for each violated field, and the prompt of the
\* next attempt contains every one of these entries.
C22_EveryViolationReported ==
  IsConfigLoop =>
    \A k \in 1..Len(outcomes) :
      LET parsed == JSONParse(CleanedText(resps[k].text))
          kind == req.componentName
      IN  (/\ ~resps[k].fail
           /\ parsed.ok
           /\ parsed.value.ty = "object"
           /\ Violated(kind, parsed.value) # {}) =>
            /\ ~outcomes[k].accepted
            /\ Cardinality({ m \in 1..Len(outcomes[k].error) :
                               outcomes[k].error[m] = Lit(": ") })
                 = Cardinality(Violated(kind, parsed.value))
            /\ \A issue \in Violated(kind, parsed.value) :
                 /\ Contains(outcomes[k].error,
                             <<Lit(issue.path), Lit(": "), ZodMessage(issue.code)>>)
                 /\ k < Len(sent) =>
                      Contains(sent[k + 1],
                               <<Lit(issue.path), Lit(": "),
                                 ZodMessage(issue.code)>>)

C22_Witness ==
  /\ IsConfigLoop
  /\ req.componentName = "select"
  /\ Len(sent) >= 2
  /\ ~resps[1].fail
  /\ Cardinality(Violated("select", JSONParse(CleanedText(resps[1].text)).value))
       = 7
  /\ Contains(sent[2], <<Lit("value"), Lit(": "), ZodMessage("invalid_type")>>)
  /\ Contains(sent[2],
              <<Lit("styles.color"), Lit(": "), ZodMessage("invalid_string")>>)

\* C23: for every kind, the complete valid value is accepted, and that
\* value without one required field is rejected with an entry whose field
\* path is the removed field.
C23_RemovedRequiredFieldNamed ==
  fname = "validate removed" =>
    IF arg.field = ""
    THEN out.success
    ELSE /\ ~out.success
         /\ \E n \in 1..Len(out.details) : out.details[n][1] = Lit(arg.field)

\* C24: for every kind, a top-level candidate that is null, a number, a
\* string, a boolean or an array is answered with a rejection of the usual
\* shape: success = false, an error text, a list of details and no data.
C24_NonObjectRejected ==
  fname = "validate non-object" =>
    /\ out.success = FALSE
    /\ out.error # <<>>
    /\ Len(out.details) >= 1
    /\ out.data = Undefined

C24_Witness ==
  /\ fname = "validate non-object"
  /\ arg.kind = "progress"
  /\ arg.value = Arr(<<Str("a"), Str("b")>>)
  /\ ~out.success
  /\ out.error = <<Lit("Configuration validation failed")>>
  /\ out.details = << <<Lit(""), Lit(": "), ZodMessage("invalid_type")>> >>

\* What the prompt builder is handed for the k-th prompt of an invocation:
\* the kind, the current state, the intent, the provider list and the
\* prior error text (code mode hands the error over inside the intent, and
\* the code of the attempt before as the current state).
BuilderInputs(id, k) ==
  LET r == cReq[id]
      before == Alone(r, SubSeq(cResps[id], 1, k - 1))
  IN  IF r.entry = "generateComponentCode"
      THEN [kind |-> "playground", state |-> before.lets.code,
            intent |-> CodePrompt(k - 1, r.prompt, before.lets.err),
            providers |-> DefaultProviders, prior |-> <<>>]
      ELSE [kind |-> r.componentName, state |-> r.currentConfig,
            intent |-> r.prompt, providers |-> <<>>,
            prior |-> IF k = 1 THEN <<>> ELSE before.lets.err]

\* C25: any two prompts built from the same kind, current state, intent,
\* provider list and prior error text are the same text, whichever
\* invocation built them, whenever, and whatever the other invocation did
\* in between.
C25_PromptDeterministic ==
  \A id1 \in RequestIds, id2 \in RequestIds :
    \A k1 \in 1..Len(cRun[id1].sent), k2 \in 1..Len(cRun[id2].sent) :
      BuilderInputs(id1, k1) = BuilderInputs(id2, k2) =>
        cRun[id1].sent[k1] = cRun[id2].sent[k2]

C25_Witness ==
  /\ cReq[1] = cReq[2]
  /\ cReq[1].entry = "generateConfig"
  /\ Len(cRun[1].sent) = 3
  /\ Len(cRun[2].sent) = 2
  /\ BuilderInputs(1, 2) = BuilderInputs(2, 2)
  /\ cRun[1].sent[2] = cRun[2].sent[2]
  /\ BuilderInputs(1, 3) # BuilderInputs(1, 2)
  /\ cRun[1].sent[3] # cRun[1].sent[2]
  /\ cModelWrites = 1

\* C26: for the progress bar at 10 of 100 and an intent about its color,
\* an accepted result holds no value and no max other than those of the
\* current state.
C26_UnrelatedFieldsUnchanged ==
  (req = ProgressRequest /\ pc = "done" /\ result.success) =>
    \A key \in {"value", "max"} :
      HasKey(result.config, key) =>
        Get(result.config, key) = Get(req.currentConfig, key)

\* The entries of a generated provider map whose source uses a component
\* that is not among the allowed components of its provider.
OutsideVocabulary(value) ==
  { n \in 1..Len(value.members) :
      /\ value.members[n].k \in RegisteredProviders
      /\ value.members[n].v.ty = "string"
      /\ ~(ComponentsUsed(value.members[n].v.s)
             \subseteq AllowedComponentNames(value.members[n].k)) }

\* C27: in code mode, an attempt whose provider map holds a source that
\* uses a component outside its provider's allowed components is rejected,
\* and no accepted result holds such a source.
C27_ClosedVocabularyEnforced ==
  IsCodeMode =>
    /\ \A k \in 1..Len(outcomes) :
         LET parsed == JSONParse(CleanedText(resps[k].text))
         IN  (/\ ~resps[k].fail
              /\ parsed.ok
              /\ parsed.value.ty = "object"
              /\ OutsideVocabulary(parsed.value) # {}) =>
               ~outcomes[k].accepted
    /\ (pc = "done" /\ result.success /\ result.config.ty = "object") =>
         OutsideVocabulary(result.config) = {}

\* A request whose prompts getPlaygroundPrompt builds.
IsPlaygroundPrompted ==
  \/ IsCodeMode
  \/ req.entry = "generateConfig" /\ Route(req.componentName) = "playground"

\* The provider list handed to getPlaygroundPrompt: the code controller
\* hands none over, so its prompts are built for the default list.
PromptProviders ==
  IF IsCodeMode THEN DefaultProviders ELSE ProvidersOrDefault(req.providers)

\* C28: every playground prompt holds, for every provider of its provider
\* list (the default list included), the provider's allowed components and
\* its import path.
C28_PromptHoldsVocabulary ==
  IsPlaygroundPrompted =>
    \A k \in 1..Len(sent) :
      \A n \in 1..Len(PromptProviders) :
        /\ Contains(sent[k], <<Lit(PromptProviders[n])>>)
        /\ PromptProviders[n] \in RegisteredProviders
        /\ Contains(sent[k], <<AllowedComponents(PromptProviders[n])>>)
        /\ Contains(sent[k], <<Lit(ImportPath(PromptProviders[n]))>>)

\* C29: every prompt sent for a request, the first and every retry, in a
\* config loop and in code mode, holds the intent text of the request.
C29_IntentInEveryPrompt ==
  ((IsConfigLoop \/ IsCodeMode) /\ req.prompt # <<>>) =>
    \A k \in 1..Len(sent) : Contains(sent[k], req.prompt)

\* C30 (the code operation): the status is 200 exactly for a success, 400
\* for a request of invalid shape and for an exhausted retry budget, and
\* no other status but 500 is answered.
C30_StatusMapping ==
  (IsCodeMode /\ pc = "done") =>
    /\ result.status \in {200, 400, 500}
    /\ (result.status = 200) <=> result.success
    /\ req.prompt = <<>> => result.status = 400
    /\ (~result.success /\ Len(outcomes) = Ceiling(req)
        /\ outcomes[Len(outcomes)].error # <<>>
        /\ ~resps[Len(resps)].fail
        /\ JSONParse(CleanedText(resps[Len(resps)].text)).ok) =>
         result.status = 400

FeedbackHeader == <<Lit("PREVIOUS ATTEMPT FAILED WITH ERRORS:")>>

\* C31: in a config retry loop, the prompt of an attempt holds the feedback
\* block if and only if the attempt is not the first one and the error text
\* recorded for the attempt before it is not empty; the prompt is then the
\* base prompt followed by the block, and else exactly the base prompt, as
\* the prompt of the first attempt always is.
C31_FeedbackBlockIffPriorError ==
  IsConfigLoop =>
    \A k \in 1..Len(sent) :
      LET prior == IF k = 1 THEN <<>> ELSE outcomes[k - 1].error
      IN  /\ Contains(sent[k], FeedbackHeader) <=> (k > 1 /\ prior # <<>>)
          /\ sent[k] = IF k > 1 /\ prior # <<>>
                       THEN BasePrompt(req) \o FeedbackBlock(prior)
                       ELSE BasePrompt(req)
          /\ k = 1 => sent[k] = BasePrompt(req)

C31_Witness ==
  /\ IsConfigLoop
  /\ Len(sent) >= 3
  /\ outcomes[1].error = <<>>
  /\ sent[2] = BasePrompt(req)
  /\ outcomes[2].error # <<>>
  /\ sent[3] = BasePrompt(req) \o FeedbackBlock(outcomes[2].error)

\* The ceiling the claim gives a request's path.
PathCeiling(r) ==
  IF r.entry = "generateConfig" THEN 3 ELSE 5

\* C32: the backend is called for a request at most as often as the ceiling
\* of its path allows: 3 times on generateWithValidation, 5 times on the
\* per-kind generators and in code mode, whatever the kind of the request;
\* a request that has made that many calls and gets no accepted answer ends
\* without a further call.
C32_CeilingUniformPerRequest ==
  /\ Len(sent) <= PathCeiling(req)
  /\ Len(resps) <= PathCeiling(req)
  /\ (IsConfigLoop \/ IsCodeMode) =>
       ((Len(resps) = PathCeiling(req)) => pc = "done")

C32_Witness ==
  /\ req.entry = "generateConfig"
  /\ req.componentName = "tabs"
  /\ pc = "done"
  /\ ~result.success
  /\ Len(sent) = 3
  /\ Len(resps) = 3

\* The names the switch of generateConfig routes to generateWithValidation.
RouterKinds == { n \in RouterNames : Route(n) = "loop" }

\* The names for which getSystemPrompt embeds a schema description.
DescribedKinds == { n \in RouterNames : SchemaDescription(n) # <<>> }

\* C33: for a request of generateConfig that names one of the ten config
\* kinds, every prompt holds the schema description of that kind and every
\* extracted candidate is accepted or rejected as the validator of that
\* kind decides; the names the router hands to generateWithValidation are
\* the ten kinds, and they are the names for which a schema description is
\* embedded.
C33_ValidatorAndDescriptionOfSameKind ==
  /\ RouterKinds = ConfigKinds
  /\ DescribedKinds = RouterKinds
  /\ Cardinality(RouterKinds) = 10
  /\ (req.entry = "generateConfig" /\ req.componentName \in ConfigKinds) =>
       /\ \A k \in 1..Len(sent) :
            /\ Contains(sent[k], DescriptionText(req.componentName))
            /\ \A other \in ConfigKinds \ {req.componentName} :
                 ~Contains(sent[k], DescriptionText(other))
       /\ \A k \in 1..Len(resps) :
            LET extracted == ExtractJSON(resps[k].text)
            IN  (~resps[k].fail /\ extracted.ok) =>
                  outcomes[k].accepted =
                    Validate(req.componentName, extracted.value).success

C33_Witness ==
  /\ req.entry = "generateConfig"
  /\ req.componentName = "tabs"
  /\ pc = "done"
  /\ result.success
  /\ Len(sent) = 2
  /\ Contains(sent[2], DescriptionText("tabs"))
  /\ ~resps[1].fail
  /\ ExtractJSON(resps[1].text).ok
  /\ ~outcomes[1].accepted
  /\ outcomes[2].accepted

\* The part of a playground prompt that names the providers to generate
\* for, when it names exactly the given ones.
ProvidersSection(providers) ==
  <<Lit("PROVIDERS TO GENERATE FOR:")>>
  \o Join(MapSeq(ProviderName, providers), <<Lit(", ")>>)
  \o <<Lit("CURRENT CODE STATE:")>>

\* C34: in code mode every prompt of a request, the first and every retry,
\* asks for exactly the providers of the request's provider list.
C34_EveryAttemptForRequestedProviders ==
  IsCodeMode =>
    \A k \in 1..Len(sent) :
      Contains(sent[k], ProvidersSection(RequestedProviders))

\* C35: generateComponentConfig starts the save of one record, made of the
\* request's prompt, the generated value and the request's current
\* configuration, when the generation has succeeded, and starts none
\* otherwise: a request rejected for its shape, a request for an
\* unsupported kind and a request that ended in exhaustion are answered
\* 400 with no save started.
C35_SaveOnceOnSuccessOnly ==
  /\ Len(saves) <= 1
  /\ (Len(saves) = 1) <=> (ctl.run.pc = "done" /\ ctl.run.result.success)
  /\ (save = "none") <=> (saves = <<>>)
  /\ Len(saves) = 1 =>
       saves[1] = [prompt |-> ctl.req.prompt,
                   responseConfig |-> Stringify(ctl.run.result.config),
                   currentConfig |-> Stringify(ctl.req.currentConfig)]
  /\ http.status \notin {0, 200} => saves = <<>>
  /\ (ctl.run.pc = "done" /\ ~ctl.run.result.success) =>
       (saves = <<>> /\ http.status = 400)

C35_Witness ==
  /\ save = "saved"
  /\ Len(saves) = 1
  /\ saves[1].prompt = Intent
  /\ saves[1].currentConfig = Stringify(ExampleValid("select"))
  /\ saves[1].responseConfig =
       Stringify(Validate("select", ExampleValid("select")).data)
  /\ Len(ctl.run.sent) = 3
  /\ http.status = 200

\* An invocation issues a backend call in the step: getModel is called.
CallsGetModel ==
  \E id \in RequestIds : Len(cRun'[id].sent) > Len(cRun[id].sent)

\* C36: however the requests interleave, the client handle is constructed
\* at most once: a handle that is set is never replaced and every call
\* made then goes on with it; a call made while the handle is unset and
\* the key is missing leaves it unset, and a call made while it is unset
\* and the key is there constructs it.
C36_HandleBuiltOnce ==
  [][/\ cModelWrites' <= 1
     /\ cModelWrites' >= cModelWrites
     /\ model # "null" => (model' = model /\ cModelWrites' = cModelWrites)
     /\ ~CallsGetModel => (model' = model /\ cModelWrites' = cModelWrites)
     /\ (CallsGetModel /\ model = "null" /\ ~apiKey) =>
          (model' = "null" /\ cModelWrites' = 0)
     /\ (CallsGetModel /\ model = "null" /\ apiKey) =>
          (model' # "null" /\ cModelWrites' = 1)]_vars

C36_Witness ==
  /\ cRun[1].pc = "done"
  /\ Len(cResps[1]) = 3
  /\ \A k \in 1..3 : cResps[1][k] = Failure(MissingKeyMessage)
  /\ apiKey
  /\ model = "client"
  /\ cModelWrites = 1
  /\ Len(cRun[2].sent) = 2
  /\ Len(cResps[2]) = 1
  /\ cResps[2][1] # Failure(MissingKeyMessage)

(***************************************************************************)
(* One request whose backend calls are all answered: every call returns    *)
(* or fails (the promise of callGemini settles).                           *)
(***************************************************************************)
Answered ==
  \/ \E resp \in CallGeminiAnswers(req) : ConfigLoopResume(resp)
  \/ \E resp \in CallGeminiAnswers(req) : PlaygroundResume(resp)
  \/ \E resp \in CallGeminiAnswers(req) : CodeLoopResume(resp)

SpecLive == Init /\ [][Next]_vars /\ WF_vars(Answered)

\* The request was not supported: the default case of the router.
IsUnsupported ==
  /\ pc = "done"
  /\ result.fields = {"success", "error"}
  /\ sent = <<>>
  /\ result.status = 0

\* The three terminal outcomes: accepted, exhausted, unsupported kind.
TerminalOutcome ==
  /\ pc = "done"
  /\ \/ result.success
     \/ IsExhaustion
     \/ IsUnsupported

\* A request of valid shape has been made.
RequestMade == pc # "idle" /\ ~(IsCodeMode /\ req.prompt = <<>>)

\* C37: with every backend call answered, a request that was made reaches
\* one of the terminal outcomes accepted, exhausted or unsupported kind;
\* and while a call is pending the request has no result, which only the
\* answer to that call brings about.
C37_EndsInTerminalOutcome ==
  /\ RequestMade ~> TerminalOutcome
  /\ [](pc = "calling" => result = NoResult)
  /\ [][(pc = "calling" /\ pc' # "calling") =>
          Len(resps') = Len(resps) + 1]_vars

\* The part of a playground prompt that holds the given code state.
CodeStateSection(code) ==
  <<Lit("CURRENT CODE STATE:")>> \o CodeStateText(code)
  \o <<Lit("CORE INSTRUCTIONS")>>

\* The part of a config prompt that holds the given configuration.
ConfigurationSection(config) ==
  <<Lit("CURRENT CONFIGURATION:")>> \o Stringify(config)
  \o <<Lit("USER REQUEST: ")>>

\* C38: in code mode the prompt of attempt k+1 holds, as its current code
\* state, the value attempt k generated, which failed the compile check
\* (the first attempt holds the request's prevCode); in a config loop the
\* prompt of every attempt holds the request's current configuration, and
\* no step of a request changes the request.
C38_StateHandedToNextAttempt ==
  /\ [](IsCodeMode =>
          /\ Len(sent) >= 1 =>
               Contains(sent[1], CodeStateSection(req.prevCode))
          /\ \A k \in 1..(Len(sent) - 1) :
               LET generated == ExtractJSON(resps[k].text)
               IN  /\ ~resps[k].fail
                   /\ generated.ok
                   /\ ~CompileCheck(generated.value).allValid
                   /\ Contains(sent[k + 1], CodeStateSection(generated.value)))
  /\ [](IsConfigLoop =>
          \A k \in 1..Len(sent) :
            Contains(sent[k], ConfigurationSection(req.currentConfig)))
  /\ [][pc # "idle" => req' = req]_vars

C38_Witness ==
  /\ IsCodeMode
  /\ Len(sent) = 3
  /\ ExtractJSON(resps[1].text).value # ExtractJSON(resps[2].text).value
  /\ ExtractJSON(resps[2].text).value # req.prevCode
  /\ Contains(sent[3], CodeStateSection(ExtractJSON(resps[2].text).value))
  /\ ~Contains(sent[3], CodeStateSection(ExtractJSON(resps[1].text).value))
  /\ ~Contains(sent[3], CodeStateSection(req.prevCode))

=============================================================================
